---- MODULE Spec2Model ----
(***************************************************************************)
(* A model of the index/symlink pipeline of eve-frontier-tools:            *)
(*   src/lib/utils.js                      files.*, pickle.*, StatsCollector*)
(*   src/lib/processors/file-indexing.js   processIndexFile and handlers   *)
(*                                                                         *)
(* Text is modelled as a sequence of one-character strings, so that the    *)
(* regular expression, String.replace and path.join are computed on the    *)
(* characters.  A filesystem path is the sequence of its segments,         *)
(* relative to projectRoot.                                                *)
(***************************************************************************)
EXTENDS Integers, Sequences, FiniteSets, TLC

VARIABLES
    pline,      \* SpecParse: the manifest line handed to the loop body
                \* (SpecClean: the logical path of the entry dispatched)
    pout,       \* SpecParse, SpecClean: what the code did with it
    fs,         \* the filesystem: path -> node, for every path that lstat finds
    ro,         \* the directories in which unlink/symlink/mkdir fail with EACCES
    lastCall,   \* SpecLink: the last files.createSymlink call and its outcome
                \* (SpecStats: the last StatsCollector call and what it returned)
    manifests,  \* the lines of index_stillness.txt and of resfileindex.txt
    pc,         \* runFileIndexing: "idle", "scan", "done" or "failed"
    run,        \* how many times runFileIndexing was started
    mi,         \* the manifest being scanned (3: both are finished)
    li,         \* the next line of it
    stats,      \* the StatsCollector of the run
    processedInThisFile,  \* processIndexFile: entries counted in this manifest
    returned,   \* what processIndexFile returned for the manifests finished
    trace,      \* the loop iterations of this run, in order
    prevLinks,  \* the symbolic links in the tree when this run started
    sameInputs, \* how many runs started since the surroundings last changed
    updated,    \* whether the surroundings changed already
    loaded,     \* derived-dataset builders: the JSON trees read with json.load
    derived     \* derived-dataset builders: the maps built from them

parseVars == <<pline, pout>>
scanVars == <<manifests, pc, run, mi, li, stats, processedInThisFile, returned, trace,
              prevLinks, sameInputs, updated>>
vars == <<pline, pout, fs, ro, lastCall, manifests, pc, run, mi, li, stats, processedInThisFile,
          returned, trace, prevLinks, sameInputs, updated, loaded, derived>>

\* what the StatsCollector and the derived-dataset builders leave alone
BuilderRest == <<pline, pout, fs, ro, manifests, run, mi, processedInThisFile,
                 returned, trace, prevLinks, sameInputs, updated>>

(***************************************************************************)
(* Bounds of the model.                                                    *)
(***************************************************************************)
MaxLineLen == 8
MaxLines == 2
MaxRuns == 3
MaxPathLen == 6
MaxCount == 3
MaxBlueprints == 2
MaxMaterials == 2
MaxTypes == 2

(***************************************************************************)
(* Text helpers.                                                           *)
(***************************************************************************)
Min(S) == CHOOSE x \in S : \A y \in S : x <= y
Max(S) == CHOOSE x \in S : \A y \in S : x >= y

RECURSIVE Str(_)
\* The characters of s as one string (template literal / string concatenation).
Str(s) == IF s = <<>> THEN "" ELSE Head(s) \o Str(Tail(s))

\* Index of the first c at or after position from, 0 when there is none.
FirstAt(line, c, from) ==
    LET hits == {k \in from..Len(line) : line[k] = c}
    IN IF hits = {} THEN 0 ELSE Min(hits)

\* Index of the last c in line[from..to], 0 when there is none.
LastIn(line, c, from, to) ==
    LET hits == {k \in from..to : line[k] = c}
    IN IF hits = {} THEN 0 ELSE Max(hits)

(***************************************************************************)
(* The manifest regular expression of processIndexFile (line 140): five   *)
(* groups between the anchors, g1 = any characters, lazily; g2 = one or    *)
(* more characters other than "/"; a literal "."; g3 = one or more         *)
(* characters other than ","; a literal ","; g4 = one or more characters   *)
(* other than ","; g5 = any characters.  It is computed here               *)
(* with the engine's backtracking order: group 1 is lazy (the shortest     *)
(* prefix for which the rest matches), group 2 is greedy (then the longest *)
(* run without "/" that is followed by "."), group 3 is a non-empty run    *)
(* without "," that must be followed by ",", so it ends at the first comma *)
(* after it, group 4 is the longest non-empty run without "," after that   *)
(* comma and group 5 takes the rest.                                       *)
(***************************************************************************)
NoMatch == [matched |-> FALSE, respath |-> <<>>, filename |-> <<>>,
            filetype |-> <<>>, sourceRelativePath |-> <<>>, rest |-> <<>>]

\* Whether the regex matches with group 1 = line[1..i] and group 2 = line[i+1..j].
RegexSplitOk(line, i, j) ==
    /\ j >= i + 1
    /\ j + 1 <= Len(line)
    /\ \A k \in (i + 1)..j : line[k] # "/"
    /\ line[j + 1] = "."
    /\ LET c == FirstAt(line, ",", j + 2)
       IN /\ c >= j + 3
          /\ c + 1 <= Len(line)
          /\ line[c + 1] # ","

RegexMatch(line) ==
    LET n == Len(line)
        starts == {i \in 0..n : \E j \in (i + 1)..n : RegexSplitOk(line, i, j)}
    IN IF starts = {} THEN NoMatch
       ELSE LET i == Min(starts)
                j == Max({k \in (i + 1)..n : RegexSplitOk(line, i, k)})
                c == FirstAt(line, ",", j + 2)
                e == FirstAt(line, ",", c + 1)
                d == IF e = 0 THEN n + 1 ELSE e
            IN [matched |-> TRUE,
                respath |-> SubSeq(line, 1, i),
                filename |-> SubSeq(line, i + 1, j),
                filetype |-> SubSeq(line, j + 2, c - 1),
                sourceRelativePath |-> SubSeq(line, c + 1, d - 1),
                rest |-> SubSeq(line, d, n)]

(***************************************************************************)
(* Paths.  path.join concatenates with "/" and normalises: empty and "."   *)
(* segments vanish and ".." removes the segment before it.                 *)
(***************************************************************************)
RECURSIVE SplitSlash(_)
SplitSlash(s) ==
    LET k == FirstAt(s, "/", 1)
    IN IF k = 0 THEN <<s>>
       ELSE <<SubSeq(s, 1, k - 1)>> \o SplitSlash(SubSeq(s, k + 1, Len(s)))

RECURSIVE NormSegs(_, _)
NormSegs(done, todo) ==
    IF todo = <<>> THEN done
    ELSE LET h == Head(todo)
             n == Len(done)
         IN IF h = <<>> \/ h = <<".">> THEN NormSegs(done, Tail(todo))
            ELSE IF h = <<".", ".">>
                 THEN IF n > 0 /\ done[n] # ".."
                      THEN NormSegs(SubSeq(done, 1, n - 1), Tail(todo))
                      ELSE NormSegs(Append(done, ".."), Tail(todo))
                 ELSE NormSegs(Append(done, Str(h)), Tail(todo))

\* path.join(base, text) for an already normalised base.
Join(base, text) == NormSegs(base, SplitSlash(text))

Dirname(p) == SubSeq(p, 1, Len(p) - 1)

\* Whether q is d or lies below it.
IsUnder(q, d) == Len(q) >= Len(d) /\ SubSeq(q, 1, Len(d)) = d

DataDir(name) == <<"data", name>>
RawDir == <<"data", "raw">>
SchemaDir == <<"data", "raw", "schema">>
ResFilesPath == <<"data", "raw", "ResFiles">>

(***************************************************************************)
(* The filesystem.  DOMAIN fs is the set of paths lstat finds; a node is a *)
(* directory, a regular file (with what its first bytes are) or a symbolic *)
(* link (with the path it names).                                          *)
(***************************************************************************)
DirNode == [kind |-> "dir", to |-> <<>>, data |-> ""]
FileNode(d) == [kind |-> "file", to |-> <<>>, data |-> d]
LinkNode(p) == [kind |-> "link", to |-> p, data |-> ""]

RECURSIVE Follow(_, _, _)
\* The node a path resolves to, following symbolic links; "none" when the path
\* or the end of its link chain does not exist.
Follow(f, p, fuel) ==
    IF p \notin DOMAIN f THEN [kind |-> "none", to |-> <<>>, data |-> ""]
    ELSE IF f[p].kind # "link" THEN f[p]
    ELSE IF fuel = 0 THEN [kind |-> "none", to |-> <<>>, data |-> ""]
    ELSE Follow(f, f[p].to, fuel - 1)

Stat(f, p) == Follow(f, p, Cardinality(DOMAIN f))

\* fs.existsSync: follows symbolic links, so a dangling link does not exist.
ExistsSync(f, p) == Stat(f, p).kind # "none"

\* What lstat sees at p: "absent", "file", "dir", "link" or "broken".
Lstat(f, p) ==
    IF p \notin DOMAIN f THEN "absent"
    ELSE IF f[p].kind # "link" THEN f[p].kind
    ELSE IF ExistsSync(f, p) THEN "link" ELSE "broken"

Remove(f, p) == [q \in DOMAIN f \ {p} |-> f[q]]
Put(f, p, node) == [q \in DOMAIN f \cup {p} |-> IF q = p THEN node ELSE f[q]]

\* fs.promises.unlink
Unlink(f, r, p) ==
    IF p \notin DOMAIN f THEN [err |-> "ENOENT", fs |-> f]
    ELSE IF f[p].kind = "dir" THEN [err |-> "EISDIR", fs |-> f]
    ELSE IF Dirname(p) \in r THEN [err |-> "EACCES", fs |-> f]
    ELSE [err |-> "", fs |-> Remove(f, p)]

\* Whether d is a directory new entries can be made in (projectRoot is one).
IsDir(f, d) == d = <<>> \/ (d \in DOMAIN f /\ f[d].kind = "dir")

\* fs.promises.symlink(source, p)
Symlink(f, r, source, p) ==
    IF p \in DOMAIN f THEN [err |-> "EEXIST", fs |-> f]
    ELSE IF ~IsDir(f, Dirname(p)) THEN [err |-> "ENOENT", fs |-> f]
    ELSE IF Dirname(p) \in r THEN [err |-> "EACCES", fs |-> f]
    ELSE [err |-> "", fs |-> Put(f, p, LinkNode(source))]

RECURSIVE MkdirFrom(_, _, _, _)
\* fs.mkdirSync(p, {recursive: true}), from the prefix of length k on.
MkdirFrom(f, r, p, k) ==
    IF k > Len(p) THEN [err |-> "", fs |-> f]
    ELSE LET q == SubSeq(p, 1, k)
         IN IF q \in DOMAIN f
            THEN IF Stat(f, q).kind = "dir" THEN MkdirFrom(f, r, p, k + 1)
                 ELSE [err |-> IF k = Len(p) THEN "EEXIST" ELSE "ENOTDIR", fs |-> f]
            ELSE IF Dirname(q) \in r THEN [err |-> "EACCES", fs |-> f]
            ELSE MkdirFrom(Put(f, q, DirNode), r, p, k + 1)

MkdirSync(f, r, p) == MkdirFrom(f, r, p, 1)

\* fs.promises.writeFile(p, ...)
WriteFile(f, r, p, d) ==
    IF ~IsDir(f, Dirname(p)) THEN [err |-> "ENOENT", fs |-> f]
    ELSE IF p \in DOMAIN f /\ f[p].kind = "dir" THEN [err |-> "EISDIR", fs |-> f]
    ELSE IF Dirname(p) \in r THEN [err |-> "EACCES", fs |-> f]
    ELSE IF p \in DOMAIN f /\ f[p].kind = "link"
         THEN [err |-> "", fs |-> Put(f, f[p].to, FileNode(d))]
    ELSE [err |-> "", fs |-> Put(f, p, FileNode(d))]

(***************************************************************************)
(* files.createSymlink(sourcePath, targetPath)  (utils.js 273-285).        *)
(* sys lists the system calls made; settle is how the promise settled.     *)
(***************************************************************************)
\* symlink(source, target) after the target was (or was not) unlinked, and
\* the value the call resolves to (279-284).
SymlinkStep(sysU, s) ==
    IF s.err # ""
    THEN [settle |-> "resolved", value |-> FALSE, fs |-> s.fs,
          sys |-> sysU \o <<"symlink:" \o s.err>>]
    ELSE [settle |-> "resolved", value |-> TRUE, fs |-> s.fs,
          sys |-> sysU \o <<"symlink:">>]

\* The unlink of an existing target (276-278); its failure is caught (281).
UnlinkStep(r, source, target, u) ==
    IF u.err # ""
    THEN [settle |-> "resolved", value |-> FALSE, fs |-> u.fs,
          sys |-> <<"unlink:" \o u.err>>]
    ELSE SymlinkStep(<<"unlink:">>, Symlink(u.fs, r, source, target))

\* createSymlink without its try/catch: a failing unlink or symlink rejects
\* the promise.
CreateSymlinkUncaught(f, r, source, target) ==
    LET c == IF ExistsSync(f, target)
             THEN UnlinkStep(r, source, target, Unlink(f, r, target))
             ELSE SymlinkStep(<<>>, Symlink(f, r, source, target))
    IN [c EXCEPT !.settle = IF c.value THEN "resolved" ELSE "rejected"]

CreateSymlink(f, r, source, target) ==
    IF ExistsSync(f, target)
    THEN UnlinkStep(r, source, target, Unlink(f, r, target))
    ELSE SymlinkStep(<<>>, Symlink(f, r, source, target))

(***************************************************************************)
(* StatsCollector (utils.js 374-399): stats is a map from the counter      *)
(* names written so far to their values.                                   *)
(***************************************************************************)
NewStats == [k \in {} |-> 0]

StatsGet(st, key) == IF key \in DOMAIN st THEN st[key] ELSE 0

StatsIncrement(st, key, amount) ==
    [k \in DOMAIN st \cup {key} |-> IF k = key THEN StatsGet(st, key) + amount ELSE st[k]]

StatsSet(st, key, value) ==
    [k \in DOMAIN st \cup {key} |-> IF k = key THEN value ELSE st[k]]

(***************************************************************************)
(* File contents.  A regular file carries what its first 16 bytes are:     *)
(*   "sqlite"     exactly the 16 bytes "SQLite format 3" and NUL           *)
(*   "sqlite8"    those bytes with the high bit set in one of them         *)
(*   "pickle"     a pickle the parser accepts                              *)
(*   "plain"      anything else                                            *)
(*   "unreadable" a file that open() refuses (EACCES)                      *)
(***************************************************************************)
SqliteHeader == "sqlite"

\* Buffer.toString('ascii', 0, 16): decoding clears the high bit of every byte.
AsciiDecode(d) == IF d = "sqlite8" THEN "sqlite" ELSE d

\* files.isValidSQLite (utils.js 259-271)
IsValidSQLite(f, p) ==
    LET node == Stat(f, p)
    IN IF node.kind # "file" \/ node.data = "unreadable" THEN FALSE
       ELSE AsciiDecode(node.data) = SqliteHeader

\* pickle.convertToJson (utils.js 172-208): every failure is caught and
\* reported as false.
ConvertToJson(f, r, pickleFilePath, jsonFilePath) ==
    LET node == Stat(f, pickleFilePath)
        w == WriteFile(f, r, jsonFilePath, "json")
    IN IF node.kind # "file" \/ node.data # "pickle" THEN [value |-> FALSE, fs |-> f]
       ELSE IF w.err # "" THEN [value |-> FALSE, fs |-> f]
       ELSE [value |-> TRUE, fs |-> w.fs]

(***************************************************************************)
(* The five handlers (file-indexing.js 24-124).  Each returns the          *)
(* filesystem and counters it leaves, the createSymlink calls it made and  *)
(* whether it threw.                                                       *)
(***************************************************************************)
PickleExt == <<".", "p", "i", "c", "k", "l", "e">>
JsonExt == <<".", "j", "s", "o", "n">>
StaticExt == <<".", "s", "t", "a", "t", "i", "c">>
SqliteExt == <<".", "s", "q", "l", "i", "t", "e">>
FsdbinaryExt == <<".", "f", "s", "d", "b", "i", "n", "a", "r", "y">>
SchemaExt == <<".", "s", "c", "h", "e", "m", "a">>

\* The record of one createSymlink call: its arguments, what lstat saw at the
\* target before it, and its outcome.
Call(f, source, target, c) ==
    [source |-> source, target |-> target, before |-> Lstat(f, target),
     settle |-> c.settle, value |-> c.value, sys |-> c.sys]

Outcome(h, f, st, calls, threw) ==
    [handler |-> h, fs |-> f, stats |-> st, calls |-> calls, threw |-> threw]

\* processPickleFile that counts conversions only when they succeed.
PickleConvertedOnly(st, calls, c, conv) ==
    IF c.settle # "resolved" THEN Outcome("pickle", c.fs, st, calls, TRUE)
    ELSE IF ~c.value THEN Outcome("pickle", c.fs, st, calls, FALSE)
    ELSE IF conv.value
    THEN Outcome("pickle", conv.fs, StatsIncrement(st, "pickleConverted", 1), calls, FALSE)
    ELSE Outcome("pickle", conv.fs, st, calls, FALSE)

\* processPickleFile after its createSymlink call settled as c (31-46).
PickleConverted(st, calls, c, conv) ==
    IF c.settle # "resolved" THEN Outcome("pickle", c.fs, st, calls, TRUE)
    ELSE IF ~c.value THEN Outcome("pickle", c.fs, st, calls, FALSE)
    ELSE IF conv.value
    THEN Outcome("pickle", conv.fs, StatsIncrement(st, "pickleConverted", 1), calls, FALSE)
    ELSE Outcome("pickle", conv.fs, StatsIncrement(st, "pickleErrors", 1), calls, FALSE)

PickleLinked(f, r, st, sourcePath, symlinkPath, jsonPath, c) ==
    PickleConverted(st, <<Call(f, sourcePath, symlinkPath, c)>>, c,
                    ConvertToJson(c.fs, r, symlinkPath, jsonPath))

ProcessPickleFile(f, r, st, filename, sourcePath) ==
    PickleLinked(f, r, st, sourcePath,
                 Join(DataDir("pickle"), filename \o PickleExt),
                 Join(DataDir("json"), filename \o JsonExt),
                 CreateSymlink(f, r, sourcePath,
                               Join(DataDir("pickle"), filename \o PickleExt)))

\* processStaticFile after the sqlite symlink settled as c2 (64-72).
SqliteLinked(f, st, sourcePath, sqlitePath, call1, c2) ==
    IF c2.settle # "resolved"
    THEN Outcome("static", c2.fs, st,
                 <<call1, Call(f, sourcePath, sqlitePath, c2)>>, TRUE)
    ELSE IF c2.value
    THEN Outcome("static", c2.fs,
                 StatsIncrement(StatsIncrement(st, "sqliteLinked", 1), "staticLinked", 1),
                 <<call1, Call(f, sourcePath, sqlitePath, c2)>>, FALSE)
    ELSE Outcome("static", c2.fs, StatsIncrement(st, "staticLinked", 1),
                 <<call1, Call(f, sourcePath, sqlitePath, c2)>>, FALSE)

\* processStaticFile after the static symlink settled as c (58-72).
StaticLinked(f, r, st, sourcePath, symlinkPath, sqlitePath, c) ==
    IF c.settle # "resolved"
    THEN Outcome("static", c.fs, st, <<Call(f, sourcePath, symlinkPath, c)>>, TRUE)
    ELSE IF ~c.value
    THEN Outcome("static", c.fs, st, <<Call(f, sourcePath, symlinkPath, c)>>, FALSE)
    ELSE IF ~IsValidSQLite(c.fs, sourcePath)
    THEN Outcome("static", c.fs, StatsIncrement(st, "staticLinked", 1),
                 <<Call(f, sourcePath, symlinkPath, c)>>, FALSE)
    ELSE SqliteLinked(c.fs, st, sourcePath, sqlitePath,
                      Call(f, sourcePath, symlinkPath, c),
                      CreateSymlink(c.fs, r, sourcePath, sqlitePath))

ProcessStaticFile(f, r, st, filename, sourcePath) ==
    StaticLinked(f, r, st, sourcePath,
                 Join(DataDir("static"), filename \o StaticExt),
                 Join(DataDir("sqlite"), filename \o SqliteExt),
                 CreateSymlink(f, r, sourcePath,
                               Join(DataDir("static"), filename \o StaticExt)))

\* A handler that makes one symlink and counts it under key when it was
\* created (82-85, 99-103, 119-123).
CountLinked(h, f, st, key, sourcePath, symlinkPath, c) ==
    IF c.settle # "resolved"
    THEN Outcome(h, c.fs, st, <<Call(f, sourcePath, symlinkPath, c)>>, TRUE)
    ELSE IF c.value
    THEN Outcome(h, c.fs, StatsIncrement(st, key, 1),
                 <<Call(f, sourcePath, symlinkPath, c)>>, FALSE)
    ELSE Outcome(h, c.fs, st, <<Call(f, sourcePath, symlinkPath, c)>>, FALSE)

LinkAndCount(h, f, r, st, key, sourcePath, symlinkPath) ==
    CountLinked(h, f, st, key, sourcePath, symlinkPath,
                CreateSymlink(f, r, sourcePath, symlinkPath))

ProcessFSDBinaryFile(f, r, st, filename, sourcePath) ==
    LinkAndCount("fsdbinary", f, r, st, "fsdbinaryLinked", sourcePath,
                 Join(DataDir("fsdbinary"), filename \o FsdbinaryExt))

\* The directory of the symlink is made when it does not exist (95-97,
\* 115-117); mkdirSync throws when it fails.
InDirectory(h, r, st, key, sourcePath, symlinkPath, mk) ==
    IF mk.err # "" THEN Outcome(h, mk.fs, st, <<>>, TRUE)
    ELSE LinkAndCount(h, mk.fs, r, st, key, sourcePath, symlinkPath)

MakeDirectory(f, r, dir) ==
    IF ~ExistsSync(f, dir) THEN MkdirSync(f, r, dir) ELSE [err |-> "", fs |-> f]

ProcessSchemaFile(f, r, st, filename, sourcePath) ==
    InDirectory("schema", r, st, "schemaLinked", sourcePath,
                Join(SchemaDir, filename \o SchemaExt),
                MakeDirectory(f, r, Dirname(Join(SchemaDir, filename \o SchemaExt))))

\* String.replace(pattern, '') with a string pattern: the first occurrence only.
ReplaceFirst(s, pat) ==
    LET n == Len(pat)
        hits == {k \in 1..(Len(s) - n + 1) : SubSeq(s, k, k + n - 1) = pat}
    IN IF hits = {} THEN s
       ELSE SubSeq(s, 1, Min(hits) - 1) \o SubSeq(s, Min(hits) + n, Len(s))

\* respath.replace(/[:\\]/g, '_').replace(/^_+/, '')
CleanPath(respath) ==
    LET mapped == [k \in 1..Len(respath) |->
                      IF respath[k] \in {":", "\\"} THEN "_" ELSE respath[k]]
        rest == {k \in 1..Len(mapped) : mapped[k] # "_"}
    IN IF rest = {} THEN <<>> ELSE SubSeq(mapped, Min(rest), Len(mapped))

ProcessOtherFile(f, r, st, filename, filetype, sourcePath, respath) ==
    InDirectory("other", r, st, "otherLinked", sourcePath,
                Join(Join(RawDir, CleanPath(respath)), filename \o <<".">> \o filetype),
                MakeDirectory(f, r, Join(RawDir, CleanPath(respath))))

ResPrefix == <<"r", "e", "s", ":">>

\* The switch without its schema case: schema entries fall to the default.
DispatchNoSchema(f, r, st, m, sourceFilePath) ==
    LET t == Str(m.filetype)
    IN CASE t = "pickle" -> ProcessPickleFile(f, r, st, m.filename, sourceFilePath)
         [] t = "static" -> ProcessStaticFile(f, r, st, m.filename, sourceFilePath)
         [] t = "fsdbinary" -> ProcessFSDBinaryFile(f, r, st, m.filename, sourceFilePath)
         [] OTHER -> ProcessOtherFile(f, r, st, m.filename, m.filetype, sourceFilePath,
                                      ReplaceFirst(m.respath, ResPrefix))

\* The switch of processIndexFile (165-182).
Dispatch(f, r, st, m, sourceFilePath) ==
    LET t == Str(m.filetype)
    IN CASE t = "pickle" -> ProcessPickleFile(f, r, st, m.filename, sourceFilePath)
         [] t = "static" -> ProcessStaticFile(f, r, st, m.filename, sourceFilePath)
         [] t = "fsdbinary" -> ProcessFSDBinaryFile(f, r, st, m.filename, sourceFilePath)
         [] t = "schema" -> ProcessSchemaFile(f, r, st, m.filename, sourceFilePath)
         [] OTHER -> ProcessOtherFile(f, r, st, m.filename, m.filetype, sourceFilePath,
                                      ReplaceFirst(m.respath, ResPrefix))

(***************************************************************************)
(* One iteration of the loop of processIndexFile (145-186) on one line:    *)
(* the filesystem, the counters and processedInThisFile it leaves, and     *)
(* what happened.  aborted says that the iteration ended the scan.         *)
(***************************************************************************)
Iteration(f, st, processed, m, counted, exists, h, caught, aborted) ==
    [fs |-> f, stats |-> st, count |-> processed, entry |-> m, counted |-> counted,
     sourceExists |-> exists, handler |-> h.handler, calls |-> h.calls,
     caught |-> caught, aborted |-> aborted]

NoHandler(f, st) == Outcome("none", f, st, <<>>, FALSE)

\* The loop without its catch: the error leaves processIndexFile.
RethrowHandlerError(f, st, processed, m, h) ==
    Iteration(h.fs, h.stats, processed, m, TRUE, TRUE, h, FALSE, TRUE)

\* The catch of the loop (183-185): the error is logged and the loop goes on.
CatchHandlerError(f, st, processed, m, h) ==
    Iteration(h.fs, h.stats, processed, m, TRUE, TRUE, h, TRUE, FALSE)

\* The try block (156-182) with the handler's outcome h.
Handled(f, st1, processed, m, h) ==
    IF h.threw THEN CatchHandlerError(f, st1, processed, m, h)
    ELSE Iteration(h.fs, h.stats, processed, m, TRUE, TRUE, h, FALSE, FALSE)

\* A matched line after it was counted (152-153): the existence check
\* (161-163) and the switch.
Counted(f, r, st1, processed, m, sourceFilePath) ==
    IF ~ExistsSync(f, sourceFilePath)
    THEN Iteration(f, st1, processed, m, TRUE, FALSE, NoHandler(f, st1), FALSE, FALSE)
    ELSE Handled(f, st1, processed, m, Dispatch(f, r, st1, m, sourceFilePath))

\* The body that counts the entry in processedInThisFile only.
MatchedUncounted(f, r, st, processed, m) ==
    IF ~m.matched
    THEN Iteration(f, st, processed, m, FALSE, FALSE, NoHandler(f, st), FALSE, FALSE)
    ELSE Counted(f, r, st, processed + 1, m, Join(ResFilesPath, m.sourceRelativePath))

\* The body for the match result m (146-186).
Matched(f, r, st, processed, m) ==
    IF ~m.matched
    THEN Iteration(f, st, processed, m, FALSE, FALSE, NoHandler(f, st), FALSE, FALSE)
    ELSE Counted(f, r, StatsIncrement(st, "totalProcessed", 1), processed + 1, m,
                 Join(ResFilesPath, m.sourceRelativePath))

LoopBody(f, r, st, processed, line) == Matched(f, r, st, processed, RegexMatch(line))

(***************************************************************************)
(* ensureDirectories (utils.js 90-109) and the tree the tool works in.     *)
(***************************************************************************)
DefaultDirs ==
    <<RawDir, DataDir("json"), DataDir("extracted"), DataDir("sqlite"),
      DataDir("static"), DataDir("pickle"), <<"data", "fsdbinary", "src">>>>

RECURSIVE EnsureFrom(_, _, _, _)
EnsureFrom(f, r, dirs, k) ==
    IF k > Len(dirs) THEN [err |-> "", fs |-> f]
    ELSE LET mk == IF ~ExistsSync(f, dirs[k]) THEN MkdirSync(f, r, dirs[k])
                   ELSE [err |-> "", fs |-> f]
         IN IF mk.err # "" THEN mk ELSE EnsureFrom(mk.fs, r, dirs, k + 1)

EnsureDirectories(f, r, directories) == EnsureFrom(f, r, DefaultDirs \o directories, 1)

EmptyFs == [p \in {} |-> DirNode]

\* The project tree after setup: the directories of ensureDirectories and the
\* resource root data/raw/ResFiles.
TreeAfterSetup ==
    Put(EnsureDirectories(EmptyFs, {}, <<SchemaDir>>).fs, ResFilesPath, DirNode)

SourceFile(name) == Append(ResFilesPath, name)

\* The variables of the index step, in the specifications that do not run it.
ScanUnused ==
    /\ loaded = <<>>
    /\ derived = <<>>
    /\ manifests = <<>>
    /\ pc = "idle"
    /\ run = 0
    /\ mi = 0
    /\ li = 0
    /\ stats = NewStats
    /\ processedInThisFile = 0
    /\ returned = <<>>
    /\ trace = <<>>
    /\ prevLinks = {}
    /\ sameInputs = 0
    /\ updated = FALSE

(***************************************************************************)
(* SpecParse: the loop body of processIndexFile applied to every line over *)
(* a small alphabet, and to one line of the format's documentation, in a   *)
(* tree whose resource root holds the files "a" and "x".                   *)
(***************************************************************************)
Alphabet == {"a", "/", ".", ","}
AllLines == UNION {[1..n -> Alphabet] : n \in 0..MaxLineLen}

ParseTree ==
    Put(Put(TreeAfterSetup, SourceFile("a"), FileNode("plain")),
        SourceFile("x"), FileNode("plain"))

\* res:/a.b/c.txt,x   (a logical path with a dot in a directory name)
DottedDirectoryLine ==
    <<"r", "e", "s", ":", "/", "a", ".", "b", "/", "c", ".", "t", "x", "t", ",", "x">>

ParseInit ==
    /\ pline \in AllLines \cup {DottedDirectoryLine}
    /\ pout = <<>>
    /\ fs = ParseTree
    /\ ro = {}
    /\ lastCall = <<>>
    /\ ScanUnused

\* One iteration of the loop on pline, from fresh counters.
ParseLine ==
    /\ pout = <<>>
    /\ \E it \in {LoopBody(fs, ro, NewStats, 0, pline)} :
           pout' = <<[entry |-> it.entry, counted |-> it.counted,
                      totalProcessed |-> StatsGet(it.stats, "totalProcessed"),
                      count |-> it.count, sourceExists |-> it.sourceExists,
                      handler |-> it.handler, calls |-> it.calls]>>
    /\ UNCHANGED <<pline, loaded, derived, fs, ro, lastCall>>
    /\ UNCHANGED scanVars

ParseNext == ParseLine

SpecParse == ParseInit /\ [][ParseNext]_vars

(***************************************************************************)
(* SpecClean: the default branch of the switch applied to an entry a.t     *)
(* with an existing source, for every logical path the regular expression  *)
(* can yield (group 1 is empty or ends with "/") over the characters that  *)
(* the clean-up of the path distinguishes.                                 *)
(***************************************************************************)
CleanInit ==
    /\ pline \in
        {<<>>} \cup UNION {{Append(q, "/") : q \in [1..n -> {"r", "e", "s", ":", "\\", "_", "/"}]} :
                              n \in 0..(MaxPathLen - 1)}
    /\ pout = <<>>
    /\ fs = ParseTree
    /\ ro = {}
    /\ lastCall = <<>>
    /\ ScanUnused

\* case default of the switch (179-181) and processOtherFile (109-124).
CleanEntry ==
    /\ pout = <<>>
    /\ \E h \in {Dispatch(fs, ro, NewStats,
                          [matched |-> TRUE, respath |-> pline, filename |-> <<"a">>,
                           filetype |-> <<"t">>, sourceRelativePath |-> <<"a">>,
                           rest |-> <<>>],
                          SourceFile("a"))} :
           /\ pout' = <<[cleanPath |-> CleanPath(ReplaceFirst(pline, ResPrefix)),
                         handler |-> h.handler, calls |-> h.calls]>>
           /\ fs' = h.fs
    /\ UNCHANGED <<pline, loaded, derived, ro, lastCall>>
    /\ UNCHANGED scanVars

CleanNext == CleanEntry

SpecClean == CleanInit /\ [][CleanNext]_vars

(***************************************************************************)
(* SpecStats: one StatsCollector under every sequence of calls of its      *)
(* methods, with counter values kept within -1..MaxCount.                  *)
(***************************************************************************)
StatsInit ==
    /\ stats = NewStats
    /\ lastCall = <<>>
    /\ pline = <<>>
    /\ pout = <<>>
    /\ fs = EmptyFs
    /\ ro = {}
    /\ manifests = <<>>
    /\ pc = "idle"
    /\ run = 0
    /\ mi = 0
    /\ li = 0
    /\ processedInThisFile = 0
    /\ returned = <<>>
    /\ trace = <<>>
    /\ prevLinks = {}
    /\ sameInputs = 0
    /\ updated = FALSE
    /\ loaded = <<>>
    /\ derived = <<>>

\* new StatsCollector() (375-378)
CallNew ==
    /\ stats' = NewStats
    /\ lastCall' = <<[op |-> "new", key |-> "", arg |-> 0, before |-> stats]>>
    /\ UNCHANGED <<pc, li, loaded, derived>>
    /\ UNCHANGED BuilderRest

\* increment(key) and increment(key, amount) (380-382)
CallIncrement ==
    \E key \in {"a", "b", "processingTime"}, amount \in {-1, 1, 2} :
        /\ StatsGet(stats, key) + amount \in (-1)..MaxCount
        /\ stats' = StatsIncrement(stats, key, amount)
        /\ lastCall' = <<[op |-> "increment", key |-> key, arg |-> amount,
                          before |-> stats]>>
        /\ UNCHANGED <<pc, li, loaded, derived>>
        /\ UNCHANGED BuilderRest

\* set(key, value) (384-386)
CallSet ==
    \E key \in {"a", "b", "processingTime"}, value \in 0..MaxCount :
        /\ stats' = StatsSet(stats, key, value)
        /\ lastCall' = <<[op |-> "set", key |-> key, arg |-> value, before |-> stats]>>
        /\ UNCHANGED <<pc, li, loaded, derived>>
        /\ UNCHANGED BuilderRest

\* get(key) (388-390)
CallGet ==
    \E key \in {"a", "b", "processingTime"} :
        /\ lastCall' = <<[op |-> "get", key |-> key, arg |-> 0, before |-> stats,
                          ret |-> StatsGet(stats, key)]>>
        /\ UNCHANGED stats
        /\ UNCHANGED <<pc, li, loaded, derived>>
        /\ UNCHANGED BuilderRest

\* summary() (392-399): the counters spread first, then processingTime and
\* generatedAt; a counter is shown as <<"counter", n>>, the two texts as <<"text", ...>>
CallSummary ==
    /\ lastCall' = <<[op |-> "summary", key |-> "", arg |-> 0, before |-> stats,
                      ret |-> [k \in DOMAIN stats \cup {"processingTime", "generatedAt"} |->
                                  IF k = "processingTime" THEN <<"text", "duration">>
                                  ELSE IF k = "generatedAt" THEN <<"text", "timestamp">>
                                  ELSE <<"counter", stats[k]>>]]>>
    /\ UNCHANGED stats
    /\ UNCHANGED <<pc, li, loaded, derived>>
    /\ UNCHANGED BuilderRest

StatsNext ==
    \/ CallNew
    \/ CallIncrement
    \/ CallSet
    \/ CallGet
    \/ CallSummary

SpecStats == StatsInit /\ [][StatsNext]_vars

(***************************************************************************)
(* Values read from JSON, as the derived-dataset builders test them.       *)
(***************************************************************************)
Undefined == [t |-> "undefined"]
JsNull == [t |-> "null"]

\* a value of type "string", "number", "array" or "object"; "text" is a string
\* kept as the sequence of its pieces
Js(type, value) == [t |-> type, v |-> value]
EmptyObject == [k \in {} |-> Undefined]

\* the truth value of x in `x || ...`, `x && ...`, `if (x)`
Truthy(x) ==
    CASE x.t = "undefined" -> FALSE
      [] x.t = "null" -> FALSE
      [] x.t = "string" -> x.v # ""
      [] x.t = "number" -> x.v # 0
      [] x.t = "text" -> x.v # <<>>
      [] OTHER -> TRUE

\* obj[key]
Prop(obj, key) == IF key \in DOMAIN obj THEN obj[key] ELSE Undefined

\* obj[key] = value, map.set(key, value)
Assign(obj, key, value) ==
    [k \in DOMAIN obj \cup {key} |-> IF k = key THEN value ELSE obj[k]]

\* parseInt of the decimal text of a small number
ParseInt(text) == CHOOSE n \in 0..99 : ToString(n) = text

\* Object.entries lists integer keys in ascending order
KeyAt(obj, i) ==
    CHOOSE k \in DOMAIN obj :
        Cardinality({j \in DOMAIN obj : ParseInt(j) < ParseInt(k)}) = i - 1

(***************************************************************************)
(* SpecBom: runBlueprintAnalysis over blueprints.json and the type-name    *)
(* table, one blueprint per step.                                          *)
(***************************************************************************)
\* typeNames[id] || `Type ${id}` (also `Blueprint ${blueprintId}`)
NameOr(typeNames, key, fallback) ==
    IF Truthy(Prop(typeNames, key)) THEN Prop(typeNames, key).v ELSE fallback

\* x || []
OrEmpty(x) == IF Truthy(x) THEN x.v ELSE <<>>

\* blueprint.activities && blueprint.activities.manufacturing
HasManufacturing(blueprint) ==
    /\ Truthy(blueprint.activities)
    /\ Truthy(Prop(blueprint.activities.v, "manufacturing"))

MaterialsOf(blueprint) == OrEmpty(blueprint.activities.v.manufacturing.v.materials)

\* materials.map(mat => ({typeID, name, quantity}))
Named(typeNames, list) ==
    [i \in 1..Len(list) |->
        [typeID |-> list[i].typeID,
         name |-> NameOr(typeNames, ToString(list[i].typeID),
                         "Type " \o ToString(list[i].typeID)),
         quantity |-> list[i].quantity]]

PushUsageOnce(entry, usage) ==
    IF \E u \in 1..Len(entry.usedInBlueprints) : entry.usedInBlueprints[u] = usage
    THEN entry
    ELSE [entry EXCEPT !.usedInBlueprints = Append(@, usage)]

\* materialToBlueprints[materialId].usedInBlueprints.push({...})
PushUsage(entry, usage) ==
    [entry EXCEPT !.usedInBlueprints = Append(@, usage)]

\* for (const material of materials) { if (!materialToBlueprints[materialId]) {...};
\*                                     ...usedInBlueprints.push({...}) }
RECURSIVE AddUsages(_, _, _, _, _)
AddUsages(reverse, typeNames, blueprintId, materials, i) ==
    IF i > Len(materials) THEN reverse
    ELSE AddUsages(
             Assign(reverse, ToString(materials[i].typeID),
                    PushUsage(IF ToString(materials[i].typeID) \in DOMAIN reverse
                              THEN reverse[ToString(materials[i].typeID)]
                              ELSE [materialName |->
                                        NameOr(typeNames, ToString(materials[i].typeID),
                                               "Type " \o ToString(materials[i].typeID)),
                                    usedInBlueprints |-> <<>>],
                              [blueprintID |-> ParseInt(blueprintId),
                               blueprintName |->
                                   NameOr(typeNames, blueprintId, "Blueprint " \o blueprintId),
                               quantityRequired |-> materials[i].quantity])),
             typeNames, blueprintId, materials, i + 1)

\* one iteration of `for (const [blueprintId, blueprint] of Object.entries(blueprints))`
ProcessBlueprint(d, typeNames, blueprintId, blueprint) ==
    IF HasManufacturing(blueprint)
    THEN [allBlueprintIds |-> d.allBlueprintIds \cup {ParseInt(blueprintId)},
          blueprintToMaterials |->
              Assign(d.blueprintToMaterials, blueprintId,
                     [blueprintName |->
                          NameOr(typeNames, blueprintId, "Blueprint " \o blueprintId),
                      materials |-> Named(typeNames, MaterialsOf(blueprint)),
                      products |->
                          Named(typeNames,
                                OrEmpty(blueprint.activities.v.manufacturing.v.products))]),
          materialToBlueprints |->
              AddUsages(d.materialToBlueprints, typeNames, blueprintId,
                        MaterialsOf(blueprint), 1),
          allMaterialIds |->
              d.allMaterialIds \cup {MaterialsOf(blueprint)[i].typeID :
                                         i \in 1..Len(MaterialsOf(blueprint))}]
    ELSE [d EXCEPT !.allBlueprintIds = @ \cup {ParseInt(blueprintId)}]

CountManufacturingOnly(st, blueprint) ==
    IF HasManufacturing(blueprint)
    THEN StatsIncrement(StatsIncrement(st, "totalBlueprints", 1),
                        "manufacturingBlueprints", 1)
    ELSE st

\* stats.increment('totalBlueprints'), stats.increment('manufacturingBlueprints')
CountBlueprint(st, blueprint) ==
    IF HasManufacturing(blueprint)
    THEN StatsIncrement(StatsIncrement(st, "totalBlueprints", 1),
                        "manufacturingBlueprints", 1)
    ELSE StatsIncrement(st, "totalBlueprints", 1)

\* blueprints.json: up to MaxBlueprints blueprints, each without activities,
\* with activities but no manufacturing, or with a manufacturing activity of up
\* to MaxMaterials material records; type_names_all.json: three tables
BomInit ==
    /\ loaded \in
        [blueprints :
             UNION {[K -> {[activities |-> Undefined],
                           [activities |-> Js("object", EmptyObject)],
                           [activities |-> Js("object", [manufacturing |-> JsNull])]}
                          \cup {[activities |-> Js("object", [manufacturing |-> Js("object", a)])] :
                                   a \in [materials :
                                              {Undefined}
                                              \cup {Js("array", l) :
                                                       l \in UNION {[1..n -> {[typeID |-> 34,
                                                                                quantity |-> 10],
                                                                               [typeID |-> 35,
                                                                                quantity |-> 20]}] :
                                                                       n \in 0..MaxMaterials}},
                                          products :
                                              {Undefined,
                                               Js("array", <<[typeID |-> 1, quantity |-> 1]>>)}]}] :
                       K \in SUBSET {ToString(n) : n \in 1..MaxBlueprints}},
         typeNames :
             {EmptyObject,
              [k \in {"34"} |-> Js("string", "Tritanium")],
              [k \in {"1", "34", "35"} |->
                  IF k = "1" THEN Js("string", "Widget Blueprint")
                  ELSE IF k = "34" THEN Js("string", "Tritanium") ELSE Js("string", "")]}]
    /\ derived = [materialToBlueprints |-> EmptyObject,
                  blueprintToMaterials |-> EmptyObject,
                  allMaterialIds |-> {},
                  allBlueprintIds |-> {}]
    /\ stats = NewStats
    /\ pc = "blueprints"
    /\ li = 0
    /\ pline = <<>>
    /\ pout = <<>>
    /\ fs = EmptyFs
    /\ ro = {}
    /\ lastCall = <<>>
    /\ manifests = <<>>
    /\ run = 0
    /\ mi = 0
    /\ processedInThisFile = 0
    /\ returned = <<>>
    /\ trace = <<>>
    /\ prevLinks = {}
    /\ sameInputs = 0
    /\ updated = FALSE

BomBlueprint ==
    /\ pc = "blueprints"
    /\ li < Cardinality(DOMAIN loaded.blueprints)
    /\ \E blueprintId \in {KeyAt(loaded.blueprints, li + 1)} :
           /\ derived' = ProcessBlueprint(derived, loaded.typeNames, blueprintId,
                                          loaded.blueprints[blueprintId])
           /\ stats' = CountBlueprint(stats, loaded.blueprints[blueprintId])
    /\ li' = li + 1
    /\ UNCHANGED <<pc, loaded>>
    /\ UNCHANGED <<lastCall, BuilderRest>>

\* stats.set('uniqueMaterials', ...), stats.set('uniqueBlueprints', ...), outputs
BomFinish ==
    /\ pc = "blueprints"
    /\ li = Cardinality(DOMAIN loaded.blueprints)
    /\ stats' = StatsSet(StatsSet(stats, "uniqueMaterials",
                                  Cardinality(derived.allMaterialIds)),
                         "uniqueBlueprints", Cardinality(derived.allBlueprintIds))
    /\ pc' = "done"
    /\ UNCHANGED <<li, loaded, derived>>
    /\ UNCHANGED <<lastCall, BuilderRest>>

BomNext ==
    \/ BomBlueprint
    \/ BomFinish

SpecBom == BomInit /\ [][BomNext]_vars

(***************************************************************************)
(* SpecTypes: runTypeNameExtraction over types.json, one type per step.    *)
(***************************************************************************)
\* name && name !== ''
HasName(name) == Truthy(name) /\ ~(name.t = "string" /\ name.v = "")

IsPublishedLoosely(published) ==
    \/ published.t = "number" /\ published.v = 1
    \/ published.t = "string" /\ published.v = "1"

\* published === 1
IsPublished(published) == published.t = "number" /\ published.v = 1

\* the property key an object gives a value used as key: typesByGroup[groupId]
PropertyKey(x) ==
    CASE x.t = "undefined" -> "undefined"
      [] x.t = "null" -> "null"
      [] x.t = "number" -> ToString(x.v)
      [] OTHER -> x.v

\* if (...) typeNames[id] = name; if (...) publishedTypes[id] = name
AddedIf(names, condition, id, name) ==
    IF condition THEN Assign(names, ToString(id), name.v) ELSE names

\* one iteration of `for (const [typeId, typeData] of Object.entries(types))`
ProcessType(d, id, typeData) ==
    [typeNames |-> AddedIf(d.typeNames, HasName(typeData.typeNameID), id,
                           typeData.typeNameID),
     typesByGroup |->
         Assign(d.typesByGroup, PropertyKey(typeData.groupID),
                Append(IF PropertyKey(typeData.groupID) \in DOMAIN d.typesByGroup
                       THEN d.typesByGroup[PropertyKey(typeData.groupID)]
                       ELSE <<>>,
                       [typeID |-> id,
                        name |-> IF Truthy(typeData.typeNameID) THEN typeData.typeNameID.v
                                 ELSE "Type " \o ToString(id),
                        basePrice |-> IF Truthy(typeData.basePrice)
                                      THEN typeData.basePrice.v ELSE 0,
                        volume |-> IF Truthy(typeData.volume) THEN typeData.volume.v ELSE 0,
                        published |-> typeData.published])),
     publishedTypes |->
         AddedIf(d.publishedTypes,
                 IsPublished(typeData.published) /\ HasName(typeData.typeNameID),
                 id, typeData.typeNameID)]

\* stats.increment('totalTypes'), ('namedTypes'), ('publishedTypes')
CountType(st, typeData) ==
    IF HasName(typeData.typeNameID)
    THEN IF IsPublished(typeData.published)
         THEN StatsIncrement(StatsIncrement(StatsIncrement(st, "totalTypes", 1),
                                            "namedTypes", 1),
                             "publishedTypes", 1)
         ELSE StatsIncrement(StatsIncrement(st, "totalTypes", 1), "namedTypes", 1)
    ELSE StatsIncrement(st, "totalTypes", 1)

\* types.json: up to MaxTypes types
TypesInit ==
    /\ loaded \in
        [types :
             UNION {[K -> [typeNameID : {Undefined, JsNull, Js("string", ""),
                                         Js("string", "Tritanium")},
                           groupID : {Undefined, Js("number", 7), Js("number", 8)},
                           published : {Undefined, Js("number", 0), Js("number", 1),
                                        Js("string", "1")},
                           basePrice : {Js("number", 5)},
                           volume : {Undefined}]] :
                       K \in SUBSET {ToString(n) : n \in 1..MaxTypes}}]
    /\ derived = [typeNames |-> EmptyObject,
                  typesByGroup |-> EmptyObject,
                  publishedTypes |-> EmptyObject]
    /\ stats = NewStats
    /\ pc = "types"
    /\ li = 0
    /\ pline = <<>>
    /\ pout = <<>>
    /\ fs = EmptyFs
    /\ ro = {}
    /\ lastCall = <<>>
    /\ manifests = <<>>
    /\ run = 0
    /\ mi = 0
    /\ processedInThisFile = 0
    /\ returned = <<>>
    /\ trace = <<>>
    /\ prevLinks = {}
    /\ sameInputs = 0
    /\ updated = FALSE

TypesType ==
    /\ pc = "types"
    /\ li < Cardinality(DOMAIN loaded.types)
    /\ \E typeId \in {KeyAt(loaded.types, li + 1)} :
           /\ derived' = ProcessType(derived, ParseInt(typeId), loaded.types[typeId])
           /\ stats' = CountType(stats, loaded.types[typeId])
    /\ li' = li + 1
    /\ UNCHANGED <<pc, loaded>>
    /\ UNCHANGED <<lastCall, BuilderRest>>

\* stats.set('totalGroups', Object.keys(typesByGroup).length)
TypesFinish ==
    /\ pc = "types"
    /\ li = Cardinality(DOMAIN loaded.types)
    /\ stats' = StatsSet(stats, "totalGroups", Cardinality(DOMAIN derived.typesByGroup))
    /\ pc' = "done"
    /\ UNCHANGED <<li, loaded, derived>>
    /\ UNCHANGED <<lastCall, BuilderRest>>

TypesNext ==
    \/ TypesType
    \/ TypesFinish

SpecTypes == TypesInit /\ [][TypesNext]_vars

(***************************************************************************)
(* SpecStellar: processStellarCartography over starmapcache.json and the   *)
(* two localization files: IDs collected, labels scanned one entry per     *)
(* step, then names extracted, datasets built and label files written.     *)
(* A label is the sequence of its pieces: a pattern prefix, a digit, or    *)
(* other text.                                                             *)
(***************************************************************************)
\* parseInt of (\d+)
RECURSIVE DigitsValue(_, _, _)
DigitsValue(pieces, i, acc) ==
    IF i > Len(pieces) \/ pieces[i] \notin {"1", "2"} THEN acc
    ELSE DigitsValue(pieces, i + 1, 10 * acc + ParseInt(pieces[i]))

\* label.match(/<prefix>(\d+)/): where the first match starts, 0 when none
MatchAt(pieces, prefix) ==
    IF \E i \in 1..(Len(pieces) - 1) : pieces[i] = prefix /\ pieces[i + 1] \in {"1", "2"}
    THEN CHOOSE i \in 1..(Len(pieces) - 1) :
             /\ pieces[i] = prefix /\ pieces[i + 1] \in {"1", "2"}
             /\ \A h \in 1..(i - 1) : ~(pieces[h] = prefix /\ pieces[h + 1] \in {"1", "2"})
    ELSE 0

\* Object.keys(obj).forEach(id => ids.add(parseInt(id)))
KeyIds(obj) == IF Truthy(obj) THEN {ParseInt(k) : k \in DOMAIN obj.v} ELSE {}

\* Object.values(obj).forEach(x => { if (x[list]) x[list].forEach(id => ids.add(id)) })
ListedIds(obj, list) ==
    IF Truthy(obj)
    THEN UNION {IF Truthy(Prop(obj.v[k], list))
                THEN {obj.v[k][list].v[i] : i \in 1..Len(obj.v[k][list].v)}
                ELSE {} : k \in DOMAIN obj.v}
    ELSE {}

\* the three Sets of extractStellarLabels (351-387)
CollectIds(starMapCache) ==
    [systems |-> ListedIds(starMapCache.regions, "solarSystemIDs")
                     \cup ListedIds(starMapCache.constellations, "solarSystemIDs")
                     \cup KeyIds(starMapCache.solarSystems),
     constellations |-> ListedIds(starMapCache.regions, "constellationIDs")
                            \cup KeyIds(starMapCache.constellations),
     regions |-> KeyIds(starMapCache.regions)]

SetUnchecked(map, ids, id, messageId) == Assign(map, id, messageId)

\* if (allSystemIds.has(systemId)) systemIdToMessageId.set(systemId, parseInt(messageId))
SetIfCollected(map, ids, id, messageId) ==
    IF id \in ids THEN Assign(map, id, messageId) ELSE map

\* const match = entry.label.match(...); if (match) { const id = parseInt(match[1]); ... }
MatchAndSet(map, ids, pieces, prefix, messageId) ==
    IF MatchAt(pieces, prefix) > 0
    THEN SetIfCollected(map, ids, DigitsValue(pieces, MatchAt(pieces, prefix) + 1, 0),
                        ParseInt(messageId))
    ELSE map

\* the callback of Object.entries(mainLocalization.labels).forEach (402-427)
ScanEntry(m, ids, messageId, entry) ==
    IF entry.FullPath = "Map/SolarSystems" /\ Truthy(entry.label)
    THEN [m EXCEPT !.systems =
              MatchAndSet(@, ids.systems, entry.label.v, "solar_system_", messageId)]
    ELSE IF entry.FullPath = "Map/Constellations" /\ Truthy(entry.label)
    THEN [m EXCEPT !.constellations =
              MatchAndSet(@, ids.constellations, entry.label.v, "constellation_", messageId)]
    ELSE IF entry.FullPath = "Map/Regions" /\ Truthy(entry.label)
    THEN [m EXCEPT !.regions =
              MatchAndSet(@, ids.regions, entry.label.v, "region_", messageId)]
    ELSE m

\* mainLocalization && mainLocalization.labels
LabelsOf(mainLocalization) ==
    IF Truthy(mainLocalization) /\ Truthy(Prop(mainLocalization.v, "labels"))
    THEN mainLocalization.v.labels.v
    ELSE EmptyObject

\* systemIdToMessageId.forEach((messageId, systemId) => { if (localizationData[messageId])
\*   ... Array.isArray, length > 0, name && name !== null ... systemLabels.set(...) })
NamesOf(idToMessageId, localizationData) ==
    [id \in {i \in DOMAIN idToMessageId :
                 /\ Truthy(Prop(localizationData, ToString(idToMessageId[i])))
                 /\ localizationData[ToString(idToMessageId[i])].t = "array"
                 /\ Len(localizationData[ToString(idToMessageId[i])].v) > 0
                 /\ Truthy(localizationData[ToString(idToMessageId[i])].v[1])} |->
        localizationData[ToString(idToMessageId[id])].v[1].v]

\* the three label Maps of extractStellarLabels (437-488)
ExtractNames(m, enUsLocalization) ==
    IF Truthy(enUsLocalization) /\ enUsLocalization.t = "object"
    THEN [systems |-> NamesOf(m.systems, enUsLocalization.v),
          constellations |-> NamesOf(m.constellations, enUsLocalization.v),
          regions |-> NamesOf(m.regions, enUsLocalization.v)]
    ELSE [systems |-> EmptyObject, constellations |-> EmptyObject, regions |-> EmptyObject]

\* regions[regionId] = {id, name: regionLabels.get(regionId) || `Region_${regionId}`, ...}
Dataset(obj, labels, kind, lists) ==
    IF Truthy(obj)
    THEN [k \in DOMAIN obj.v |->
             [id |-> ParseInt(k),
              name |-> IF ParseInt(k) \in DOMAIN labels /\ labels[ParseInt(k)] # ""
                       THEN labels[ParseInt(k)]
                       ELSE kind \o "_" \o ToString(ParseInt(k)),
              lists |-> [l \in lists |-> OrEmpty(Prop(obj.v[k], l))]]]
    ELSE EmptyObject

\* labels.forEach((name, id) => { obj[id] = name })
LabelsObject(labels) == [k \in {ToString(id) : id \in DOMAIN labels} |-> labels[ParseInt(k)]]

\* buildStellarData and the label files (598-627)
Outputs(starMapCache, labels) ==
    [data |-> [regions |-> Dataset(starMapCache.regions, labels.regions, "Region",
                                   {"solarSystemIDs", "constellationIDs"}),
               constellations |-> Dataset(starMapCache.constellations,
                                          labels.constellations, "Constellation",
                                          {"solarSystemIDs"}),
               systems |-> Dataset(starMapCache.solarSystems, labels.systems, "System",
                                   {"neighbours", "stargates"})],
     labelFiles |-> [systems |-> LabelsObject(labels.systems),
                     constellations |-> LabelsObject(labels.constellations),
                     regions |-> LabelsObject(labels.regions)]]

\* starmapcache.json: systems 1 and 2, a constellation 1 listing system 2, a
\* region 1 listing constellation 2; localization_fsd_main.json: missing,
\* without labels, or with labels under message IDs 11 and 12;
\* localization_fsd_en-us.json: missing, or texts for 11 and 12
StellarInit ==
    /\ loaded \in
        [starMapCache :
             [solarSystems : {Undefined, Js("object", [k \in {"1"} |-> EmptyObject]),
                              Js("object", [k \in {"1", "2"} |-> EmptyObject])},
              constellations :
                  {Undefined,
                   Js("object", [k \in {"1"} |-> [solarSystemIDs |-> Js("array", <<2>>)]])},
              regions :
                  {Undefined,
                   Js("object", [k \in {"1"} |-> [constellationIDs |-> Js("array", <<2>>),
                                                  solarSystemIDs |-> Undefined]])}],
         mainLocalization :
             {JsNull, Js("object", EmptyObject)}
             \cup {Js("object", [labels |-> Js("object", f)]) :
                      f \in UNION {[K -> [FullPath : {"Map/SolarSystems", "Map/Constellations",
                                                      "Map/Regions"},
                                          label : {Undefined,
                                                   Js("text", <<"solar_system_", "1">>),
                                                   Js("text", <<"constellation_", "2">>),
                                                   Js("text", <<"region_", "1">>),
                                                   Js("text", <<"x_", "solar_system_", "2", "_x">>),
                                                   Js("text", <<"solar_system_", "1", "2">>)}]] :
                                      K \in SUBSET {"11", "12"}}},
         enUsLocalization :
             {JsNull}
             \cup {Js("object", [k \in {"11", "12"} |-> IF k = "11" THEN a ELSE b]) :
                      a \in {Undefined, Js("array", <<Js("string", "Jita")>>),
                             Js("array", <<Js("string", "")>>), Js("array", <<JsNull>>),
                             Js("array", <<>>), Js("string", "Jita")},
                      b \in {Undefined, Js("array", <<Js("string", "Amarr")>>)}}]
    /\ derived = <<>>
    /\ pc = "collect"
    /\ li = 0
    /\ stats = NewStats
    /\ pline = <<>>
    /\ pout = <<>>
    /\ fs = EmptyFs
    /\ ro = {}
    /\ lastCall = <<>>
    /\ manifests = <<>>
    /\ run = 0
    /\ mi = 0
    /\ processedInThisFile = 0
    /\ returned = <<>>
    /\ trace = <<>>
    /\ prevLinks = {}
    /\ sameInputs = 0
    /\ updated = FALSE

StellarCollect ==
    /\ pc = "collect"
    /\ derived' = [ids |-> CollectIds(loaded.starMapCache),
                   idToMessageId |-> [systems |-> EmptyObject,
                                      constellations |-> EmptyObject,
                                      regions |-> EmptyObject]]
    /\ pc' = "scan"
    /\ UNCHANGED <<li, stats, loaded>>
    /\ UNCHANGED <<lastCall, BuilderRest>>

StellarScanLabel ==
    /\ pc = "scan"
    /\ li < Cardinality(DOMAIN LabelsOf(loaded.mainLocalization))
    /\ \E messageId \in {KeyAt(LabelsOf(loaded.mainLocalization), li + 1)} :
           derived' = [derived EXCEPT !.idToMessageId =
                           ScanEntry(@, derived.ids, messageId,
                                     LabelsOf(loaded.mainLocalization)[messageId])]
    /\ li' = li + 1
    /\ UNCHANGED <<pc, stats, loaded>>
    /\ UNCHANGED <<lastCall, BuilderRest>>

\* the rest of processStellarCartography: names, datasets, files
StellarFinish ==
    /\ pc = "scan"
    /\ li = Cardinality(DOMAIN LabelsOf(loaded.mainLocalization))
    /\ \E labels \in {ExtractNames(derived.idToMessageId, loaded.enUsLocalization)} :
           \E out \in {Outputs(loaded.starMapCache, labels)} :
               derived' = [ids |-> derived.ids,
                           idToMessageId |-> derived.idToMessageId,
                           labels |-> labels,
                           data |-> out.data,
                           labelFiles |-> out.labelFiles]
    /\ pc' = "done"
    /\ UNCHANGED <<li, stats, loaded>>
    /\ UNCHANGED <<lastCall, BuilderRest>>

StellarNext ==
    \/ StellarCollect
    \/ StellarScanLabel
    \/ StellarFinish

SpecStellar == StellarInit /\ [][StellarNext]_vars

(***************************************************************************)
(* SpecLink: files.createSymlink called on one target in every state its   *)
(* surroundings can be brought into.                                       *)
(***************************************************************************)
LinkTarget == <<"data", "fsdbinary", "a.fsdbinary">>
LinkSources == {SourceFile("x"), SourceFile("y")}

LinkInit ==
    /\ fs = Put(Put(TreeAfterSetup, SourceFile("x"), FileNode("plain")),
                SourceFile("y"), FileNode("plain"))
    /\ ro = {}
    /\ lastCall = <<>>
    /\ pline = <<>>
    /\ pout = <<>>
    /\ ScanUnused

\* The tool calls createSymlink(source, LinkTarget).
LinkCall ==
    \E source \in LinkSources :
        \E c \in {CreateSymlink(fs, ro, source, LinkTarget)} :
            /\ lastCall' = <<Call(fs, source, LinkTarget, c)>>
            /\ fs' = c.fs
            /\ UNCHANGED <<ro, pline, loaded, derived, pout, scanVars>>

\* The game client is updated: a resource file disappears.
EnvRemoveSource ==
    \E p \in LinkSources :
        /\ p \in DOMAIN fs
        /\ fs' = Remove(fs, p)
        /\ lastCall' = <<>>
        /\ UNCHANGED <<ro, pline, loaded, derived, pout, scanVars>>

\* ... or comes back.
EnvRestoreSource ==
    \E p \in LinkSources :
        /\ p \notin DOMAIN fs
        /\ fs' = Put(fs, p, FileNode("plain"))
        /\ lastCall' = <<>>
        /\ UNCHANGED <<ro, pline, loaded, derived, pout, scanVars>>

\* Someone copies a regular file to the target, or makes a directory there.
EnvOccupyTarget ==
    \E node \in {FileNode("plain"), DirNode} :
        /\ LinkTarget \notin DOMAIN fs
        /\ IsDir(fs, Dirname(LinkTarget))
        /\ fs' = Put(fs, LinkTarget, node)
        /\ lastCall' = <<>>
        /\ UNCHANGED <<ro, pline, loaded, derived, pout, scanVars>>

\* Someone removes the target, or its whole directory.
EnvRemoveTarget ==
    \E withParent \in BOOLEAN :
        /\ Dirname(LinkTarget) \in DOMAIN fs
        /\ withParent \/ LinkTarget \in DOMAIN fs
        /\ fs' = IF withParent
                 THEN [q \in {q \in DOMAIN fs :
                                 ~IsUnder(q, Dirname(LinkTarget))} |-> fs[q]]
                 ELSE Remove(fs, LinkTarget)
        /\ lastCall' = <<>>
        /\ UNCHANGED <<ro, pline, loaded, derived, pout, scanVars>>

\* The directory of the target becomes read-only, or writable again.
EnvChmod ==
    /\ ro' = IF Dirname(LinkTarget) \in ro THEN ro \ {Dirname(LinkTarget)}
             ELSE ro \cup {Dirname(LinkTarget)}
    /\ lastCall' = <<>>
    /\ UNCHANGED <<fs, pline, loaded, derived, pout, scanVars>>

LinkNext ==
    \/ LinkCall
    \/ EnvRemoveSource
    \/ EnvRestoreSource
    \/ EnvOccupyTarget
    \/ EnvRemoveTarget
    \/ EnvChmod

SpecLink == LinkInit /\ [][LinkNext]_vars

(***************************************************************************)
(* Spec: the index step (runFileIndexing) run up to MaxRuns times over two *)
(* manifests, in a tree whose surroundings change at most once between     *)
(* runs: a resource file disappears or gets other contents, or a directory *)
(* becomes read-only.                                                      *)
(***************************************************************************)
\* a.pickle,y
LinePickle ==
    <<"a", ".", "p", "i", "c", "k", "l", "e", ",", "y">>
\* a.static,x
LineStatic ==
    <<"a", ".", "s", "t", "a", "t", "i", "c", ",", "x">>
\* f/a.fsdbinary,x
LineFsd ==
    <<"f", "/", "a", ".", "f", "s", "d", "b", "i", "n", "a", "r", "y", ",", "x">>
\* g/a.fsdbinary,y   (the destination of LineFsd, from another source)
LineFsdAgain ==
    <<"g", "/", "a", ".", "f", "s", "d", "b", "i", "n", "a", "r", "y", ",", "y">>
\* a.schema,y
LineSchema ==
    <<"a", ".", "s", "c", "h", "e", "m", "a", ",", "y">>
\* res:/d/a.txt,y
LineOther ==
    <<"r", "e", "s", ":", "/", "d", "/", "a", ".", "t", "x", "t", ",", "y">>

LinePool == {LinePickle, LineStatic, LineFsd, LineFsdAgain, LineSchema, LineOther}

Manifests(n) == UNION {[1..k -> LinePool] : k \in 0..n}

\* line.match(regex) for each line a manifest can hold
LineEntries == [line \in LinePool |-> RegexMatch(line)]

Sources == {SourceFile("x"), SourceFile("y")}
SourceKinds == {"sqlite", "sqlite8", "pickle", "plain", "unreadable"}
LockableDirs ==
    {RawDir, DataDir("static"), DataDir("sqlite"), DataDir("fsdbinary"),
     DataDir("pickle"), DataDir("json")}

\* The symbolic links of the tree: target -> the source it names.
LinksOf(f) ==
    LET targets == {p \in DOMAIN f : f[p].kind = "link"}
    IN {<<p, f[p].to>> : p \in targets}

RECURSIVE Sum(_)
Sum(q) == IF q = <<>> THEN 0 ELSE Head(q) + Sum(Tail(q))

Init ==
    /\ \E first \in Manifests(MaxLines) :
           \E second \in Manifests(MaxLines - Len(first)) :
               manifests = <<first, second>>
    /\ fs = Put(Put(TreeAfterSetup, SourceFile("x"), FileNode("sqlite")),
                SourceFile("y"), FileNode("pickle"))
    /\ ro = {}
    /\ pc = "idle"
    /\ run = 0
    /\ mi = 0
    /\ li = 0
    /\ stats = NewStats
    /\ processedInThisFile = 0
    /\ returned = <<>>
    /\ trace = <<>>
    /\ prevLinks = {}
    /\ sameInputs = 0
    /\ updated = FALSE
    /\ pline = <<>>
    /\ pout = <<>>
    /\ lastCall = <<>>
    /\ loaded = <<>>
    /\ derived = <<>>

\* runFileIndexing up to the scan (195-249): the resource root is required,
\* the directories are ensured and a new StatsCollector is made.
StartRun ==
    /\ pc \in {"idle", "done"}
    /\ run < MaxRuns
    /\ LET e == EnsureDirectories(fs, ro, <<SchemaDir>>)
       IN /\ fs' = e.fs
          /\ pc' = IF ExistsSync(fs, ResFilesPath) /\ e.err = "" THEN "scan" ELSE "failed"
    /\ run' = run + 1
    /\ mi' = 1
    /\ li' = 1
    /\ stats' = NewStats
    /\ processedInThisFile' = 0
    /\ returned' = <<>>
    /\ trace' = <<>>
    /\ prevLinks' = LinksOf(fs)
    /\ sameInputs' = IF sameInputs < 2 THEN sameInputs + 1 ELSE 2
    /\ UNCHANGED <<manifests, ro, updated, pline, loaded, derived, pout, lastCall>>

\* The readline iterator read backwards.
NextLineFromEnd(lines, i) == lines[Len(lines) + 1 - i]

\* for await (const line of rl): the i-th line the iterator yields (145).
NextLine(lines, i) == lines[i]

\* One iteration of the for-await loop of processIndexFile (145-186).
ScanLine ==
    /\ pc = "scan"
    /\ mi <= 2
    /\ li <= Len(manifests[mi])
    /\ \E it \in {LoopBody(fs, ro, stats, processedInThisFile,
                          NextLine(manifests[mi], li))} :
           \E source \in {Join(ResFilesPath, it.entry.sourceRelativePath)} :
               /\ fs' = it.fs
               /\ stats' = it.stats
               /\ processedInThisFile' = it.count
               /\ pc' = IF it.aborted THEN "failed" ELSE "scan"
               /\ trace' = Append(trace,
                      [mi |-> mi, li |-> li, entry |-> it.entry,
                       counted |-> it.counted, sourceExists |-> it.sourceExists,
                       sourceData |-> Stat(fs, source).data, source |-> source,
                       handler |-> it.handler, calls |-> it.calls,
                       caught |-> it.caught, statsBefore |-> stats,
                       statsAfter |-> it.stats, countBefore |-> processedInThisFile,
                       countAfter |-> it.count])
    /\ li' = li + 1
    /\ UNCHANGED <<manifests, ro, run, mi, returned, prevLinks, sameInputs, updated,
                   pline, loaded, derived, pout, lastCall>>

\* processIndexFile returns processedInThisFile (188-189); runFileIndexing adds
\* it up and goes to the next manifest (250-258).
ReturnCount ==
    /\ pc = "scan"
    /\ mi <= 2
    /\ li > Len(manifests[mi])
    /\ returned' = Append(returned, processedInThisFile)
    /\ mi' = mi + 1
    /\ li' = 1
    /\ processedInThisFile' = 0
    /\ UNCHANGED <<manifests, fs, ro, pc, run, stats, trace, prevLinks, sameInputs,
                   updated, pline, loaded, derived, pout, lastCall>>

\* runFileIndexing after the scan (260-266).
FinishRun ==
    /\ pc = "scan"
    /\ mi = 3
    /\ stats' = StatsSet(StatsSet(stats, "totalIndexFiles", Len(returned)),
                         "totalIndexEntries", Sum(returned))
    /\ pc' = "done"
    /\ UNCHANGED <<manifests, fs, ro, run, mi, li, processedInThisFile, returned, trace, prevLinks,
                   sameInputs, updated, pline, loaded, derived, pout, lastCall>>

\* Between runs the game client is updated and a resource file disappears.
SourceRemoved ==
    \E p \in Sources :
        /\ pc \in {"idle", "done"}
        /\ ~updated
        /\ p \in DOMAIN fs
        /\ fs' = Remove(fs, p)
        /\ updated' = TRUE
        /\ sameInputs' = 0
        /\ UNCHANGED <<manifests, ro, pc, run, mi, li, stats, processedInThisFile, returned, trace,
                       prevLinks, pline, loaded, derived, pout, lastCall>>

\* ... or gets other contents.
SourceReplaced ==
    \E p \in Sources, k \in SourceKinds :
        /\ pc \in {"idle", "done"}
        /\ ~updated
        /\ p \in DOMAIN fs
        /\ fs[p].data # k
        /\ fs' = Put(fs, p, FileNode(k))
        /\ updated' = TRUE
        /\ sameInputs' = 0
        /\ UNCHANGED <<manifests, ro, pc, run, mi, li, stats, processedInThisFile, returned, trace,
                       prevLinks, pline, loaded, derived, pout, lastCall>>

\* ... or a directory of the tree becomes read-only.
DirectoryLocked ==
    \E d \in LockableDirs :
        /\ pc \in {"idle", "done"}
        /\ ~updated
        /\ ro' = ro \cup {d}
        /\ updated' = TRUE
        /\ sameInputs' = 0
        /\ UNCHANGED <<manifests, fs, pc, run, mi, li, stats, processedInThisFile, returned, trace,
                       prevLinks, pline, loaded, derived, pout, lastCall>>

Next ==
    \/ StartRun
    \/ ScanLine
    \/ ReturnCount
    \/ FinishRun
    \/ SourceRemoved
    \/ SourceReplaced
    \/ DirectoryLocked

Spec == Init /\ [][Next]_vars

(***************************************************************************)
(* SpecFsd: runFSDBinaryConversion (fsdbinary.js 19-60) around             *)
(* processes.runPython (utils.js 292-320).  The child process reports with *)
(* events: 'close' with its exit code, or, when it could not be started,   *)
(* 'error' and then 'close' with a negative code.                          *)
(***************************************************************************)
\* resolve / reject of the promise: the first call settles it, a later call
\* changes nothing
Settle(promise, state) ==
    [state |-> IF promise.state = "pending" THEN state ELSE promise.state,
     calls |-> promise.calls + 1]

\* A close handler that takes every exit for success.
OnCloseAnyCode(promise, code) == Settle(promise, "resolved")

\* pythonProcess.on('close', code => code === 0 ? resolve() : reject(...))
OnClose(promise, code) ==
    Settle(promise, IF code = 0 THEN "resolved" ELSE "rejected")

\* The script and the Python configuration exist or not, the child starts or
\* not and ends with an exit code (-1: ended by a signal, code null), and the
\* conversion leaves some of the expected files.
FsdInit ==
    /\ loaded \in [script : BOOLEAN, pythonConfig : BOOLEAN,
                   spawn : {"started", "failed"}, code : {0, 1, 2, -1},
                   outputs : SUBSET {"types.json", "blueprints.json"}]
    /\ derived = [promise |-> [state |-> "pending", calls |-> 0],
                  errored |-> FALSE, closed |-> FALSE, code |-> 0,
                  success |-> FALSE, inspected |-> {}, results |-> {}]
    /\ pc = "start"
    /\ li = 0
    /\ stats = NewStats
    /\ lastCall = <<>>
    /\ pline = <<>>
    /\ pout = <<>>
    /\ fs = EmptyFs
    /\ ro = {}
    /\ manifests = <<>>
    /\ run = 0
    /\ mi = 0
    /\ processedInThisFile = 0
    /\ returned = <<>>
    /\ trace = <<>>
    /\ prevLinks = {}
    /\ sameInputs = 0
    /\ updated = FALSE

\* files.requireExists(pythonScript) (fsdbinary.js 26) and the start of
\* runPython (utils.js 293-305): a missing script or Python configuration ends
\* the process with code 1, otherwise the child is spawned and awaited.
FsdRunPython ==
    /\ pc = "start"
    /\ pc' = IF loaded.script /\ loaded.pythonConfig THEN "awaiting" ELSE "exited"
    /\ UNCHANGED <<loaded, derived, lastCall, li, stats, BuilderRest>>

\* pythonProcess.on('error', ...) (316-318)
FsdError ==
    /\ pc \in {"awaiting", "returned", "thrown"}
    /\ loaded.spawn = "failed"
    /\ ~derived.errored
    /\ derived' = [derived EXCEPT !.promise = Settle(@, "rejected"), !.errored = TRUE]
    /\ UNCHANGED <<pc, loaded, lastCall, li, stats, BuilderRest>>

\* pythonProcess.on('close', ...) (309-315)
FsdClose ==
    /\ pc \in {"awaiting", "returned", "thrown"}
    /\ ~derived.closed
    /\ loaded.spawn = "failed" => derived.errored
    /\ \E code \in {IF loaded.spawn = "failed" THEN -2 ELSE loaded.code} :
           derived' = [derived EXCEPT !.promise = OnClose(@, code),
                                      !.closed = TRUE, !.code = code]
    /\ UNCHANGED <<pc, loaded, lastCall, li, stats, BuilderRest>>

\* runFSDBinaryConversion after the await (fsdbinary.js 29-59): on resolve the
\* success is logged and the expected files are looked up, on reject the
\* catch logs and rethrows.
FsdResume ==
    /\ pc = "awaiting"
    /\ derived.promise.state # "pending"
    /\ pc' = IF derived.promise.state = "resolved" THEN "returned" ELSE "thrown"
    /\ derived' = IF derived.promise.state = "resolved"
                  THEN [derived EXCEPT !.success = TRUE,
                                       !.inspected = {"types.json", "blueprints.json"},
                                       !.results = loaded.outputs]
                  ELSE derived
    /\ UNCHANGED <<loaded, lastCall, li, stats, BuilderRest>>

FsdNext ==
    \/ FsdRunPython
    \/ FsdError
    \/ FsdClose
    \/ FsdResume

SpecFsd == FsdInit /\ [][FsdNext]_vars

(***************************************************************************)
(* SpecPipeline: runPipeline (part_000 114-299) for a command line, a      *)
(* state of the two configuration files and every way each step can end.   *)
(* A word of the command line is [text, list]: a flag, or the text given   *)
(* to --steps with the names that split(',') yields.  --verbose only adds  *)
(* output and --help ends the process before the pipeline starts.          *)
(***************************************************************************)
\* parseArgs (21-59), from the i-th word on
RECURSIVE ParseArgs(_, _, _)
ParseArgs(args, i, options) ==
    IF i > Len(args) THEN options
    ELSE IF args[i].text = "--steps"
    THEN ParseArgs(args, i + 2,
                   [options EXCEPT !.steps =
                        IF i + 1 > Len(args) THEN <<"all">>
                        ELSE IF args[i + 1].text = "list" THEN args[i + 1].list
                        ELSE <<args[i + 1].text>>])
    ELSE IF args[i].text = "--skip-setup"
    THEN ParseArgs(args, i + 1, [options EXCEPT !.skipSetup = TRUE])
    ELSE IF args[i].text = "--force"
    THEN ParseArgs(args, i + 1, [options EXCEPT !.force = TRUE])
    ELSE IF args[i].text = "--deep"
    THEN ParseArgs(args, i + 1, [options EXCEPT !.deep = TRUE])
    ELSE ParseArgs(args, i + 1, options)

\* `all` that always brings setup along.
StepsWithSetup(options, config, python) ==
    IF "all" \in {options.steps[i] : i \in DOMAIN options.steps}
    THEN <<"setup", "index", "fsdbinary", "types", "blueprints", "stellar">>
    ELSE options.steps

\* The steps to run (128-143); files.exists only asks whether the two
\* configuration files are there.
StepsToRun(options, config, python) ==
    IF "all" \in {options.steps[i] : i \in DOMAIN options.steps}
    THEN IF config = "absent" \/ ~python
         THEN <<"setup", "index", "fsdbinary", "types", "blueprints", "stellar">>
         ELSE <<"index", "fsdbinary", "types", "blueprints", "stellar">>
    ELSE options.steps

\* A check that lets everything pass.
ValidateNothing(options, config) == TRUE

\* validatePrerequisites (89-109): FALSE also stands for the process.exit(1)
\* that loadConfiguration itself makes on an unreadable file (utils.js 65-71);
\* both end the process with code 1 at line 146-148.
ValidatePrerequisites(options, config) ==
    IF options.skipSetup THEN TRUE
    ELSE IF config = "absent" THEN FALSE
    ELSE config = "valid"

\* The blocks with the index step moved before setup.
StepOrderIndexFirst ==
    <<"index", "setup", "fsdbinary", "types", "blueprints", "stellar", "cleanup">>

\* The blocks of runPipeline in the order of the source (152-233).
StepOrder == <<"setup", "index", "fsdbinary", "types", "blueprints", "stellar", "cleanup">>

\* How a step can end.  ok: it returned (true for setup and cleanup); false:
\* setup or cleanup returned false; throw: it threw; exit: it called
\* process.exit(1) (loadConfiguration, files.requireExists, json.load,
\* runPython without its configuration); unsaved: it returned although
\* json.save could not write an output (utils.js 228-239 returns false, which
\* type-names.js 101-103 and blueprints.js 160-163 do not look at).
StepOutcomes(step, config, python, force) ==
    CASE step = "setup" -> {"ok", "false"}
      [] step = "index" -> IF config # "valid" THEN {"exit"} ELSE {"ok", "throw", "exit"}
      [] step = "fsdbinary" -> IF ~python THEN {"exit"} ELSE {"ok", "throw", "exit"}
      [] step \in {"types", "blueprints"} -> {"ok", "unsaved", "throw", "exit"}
      [] step = "stellar" -> {"ok", "throw"}
      [] step = "cleanup" -> IF force THEN {"ok", "false"} ELSE {"false"}

MaxListed == 2

PipelineInit ==
    /\ loaded \in
        [argv : UNION {{f \o s, s \o f} :
                    f \in {SelectSeq(<<[text |-> "--skip-setup", list |-> <<>>],
                                       [text |-> "--force", list |-> <<>>],
                                       [text |-> "--deep", list |-> <<>>]>>,
                                     LAMBDA w : w.text \in F) :
                               F \in SUBSET {"--skip-setup", "--force", "--deep"}},
                    s \in {<<>>, <<[text |-> "--steps", list |-> <<>>]>>}
                          \cup {<<[text |-> "--steps", list |-> <<>>],
                                  [text |-> "list", list |-> l]>> :
                                   l \in UNION {[1..n -> {"setup", "index", "fsdbinary",
                                                          "types", "blueprints", "stellar",
                                                          "cleanup", "all"}] :
                                                   n \in 1..MaxListed}}},
         config : {"absent", "invalid", "valid"},
         python : BOOLEAN]
    /\ derived = [options |-> [steps |-> <<"all">>, skipSetup |-> FALSE,
                               force |-> FALSE, deep |-> FALSE],
                  steps |-> <<>>, stage |-> "args", ran |-> <<>>,
                  config |-> loaded.config, python |-> loaded.python,
                  exit |-> "running", saved |-> FALSE]
    /\ pc = "start"
    /\ li = 0
    /\ stats = NewStats
    /\ lastCall = <<>>
    /\ pline = <<>>
    /\ pout = <<>>
    /\ fs = EmptyFs
    /\ ro = {}
    /\ manifests = <<>>
    /\ run = 0
    /\ mi = 0
    /\ processedInThisFile = 0
    /\ returned = <<>>
    /\ trace = <<>>
    /\ prevLinks = {}
    /\ sameInputs = 0
    /\ updated = FALSE

\* runPipeline up to the first step (115-150): ensureDirectories can throw
\* (an exit with code 1 through the catch of 290-298).
PipelineStart ==
    /\ pc = "start"
    /\ \E options \in {ParseArgs(loaded.argv, 1, derived.options)}, made \in BOOLEAN :
           \E steps \in {StepsToRun(options, loaded.config, loaded.python)} :
               \E go \in {\/ "setup" \in {steps[i] : i \in DOMAIN steps}
                          \/ ValidatePrerequisites(options, loaded.config)} :
                   /\ derived' =
                          IF ~made
                          THEN [derived EXCEPT !.options = options,
                                               !.stage = "directories", !.exit = "1"]
                          ELSE [derived EXCEPT !.options = options, !.steps = steps,
                                               !.stage = IF go THEN "steps"
                                                         ELSE "prerequisites",
                                               !.exit = IF go THEN "running" ELSE "1"]
                   /\ pc' = IF made /\ go THEN "steps" ELSE "exited"
    /\ li' = 1
    /\ UNCHANGED <<loaded, stats, lastCall, BuilderRest>>

\* The li-th block of runPipeline (152-233): skipped when the step is not
\* among the steps, otherwise the step runs and ends in one of its ways.
PipelineStep ==
    /\ pc = "steps"
    /\ li <= Len(StepOrder)
    /\ \E step \in {StepOrder[li]} :
           IF step \notin {derived.steps[i] : i \in DOMAIN derived.steps}
           THEN UNCHANGED <<pc, derived, stats>>
           ELSE \E out \in StepOutcomes(step, derived.config, derived.python,
                                        derived.options.force) :
                    /\ derived' =
                           [derived EXCEPT
                                !.ran = Append(@, [step |-> step, outcome |-> out,
                                                   config |-> derived.config]),
                                !.config = IF step = "setup" /\ out = "ok" THEN "valid"
                                           ELSE IF step = "cleanup" /\ out = "ok"
                                           THEN "absent" ELSE @,
                                !.python = IF step = "setup" /\ out = "ok" THEN TRUE
                                           ELSE IF step = "cleanup" /\ out = "ok"
                                           THEN FALSE ELSE @,
                                !.exit = IF out \notin {"ok", "unsaved"} THEN "1"
                                         ELSE IF step = "cleanup" THEN "0" ELSE "running"]
                    /\ stats' = IF out \in {"ok", "unsaved"}
                                THEN StatsIncrement(stats, "stepsCompleted", 1) ELSE stats
                    /\ pc' = IF out \in {"ok", "unsaved"} /\ step # "cleanup"
                             THEN "steps" ELSE "exited"
    /\ li' = li + 1
    /\ UNCHANGED <<loaded, lastCall, BuilderRest>>

\* The summary (235-289): after a data-processing step pipeline_results.json
\* is written, and a failing write goes to the catch (290-298).
PipelineFinish ==
    /\ pc = "steps"
    /\ li > Len(StepOrder)
    /\ \E written \in IF {derived.steps[i] : i \in DOMAIN derived.steps}
                         \cap {"index", "fsdbinary", "types", "blueprints"} = {}
                      THEN {"none"} ELSE {"saved", "failed"} :
           derived' = [derived EXCEPT !.stage = "summary",
                                      !.saved = (written = "saved"),
                                      !.exit = IF written = "failed" THEN "1" ELSE "0"]
    /\ stats' = StatsSet(stats, "totalSteps", Len(derived.steps))
    /\ pc' = "exited"
    /\ UNCHANGED <<loaded, li, lastCall, BuilderRest>>

PipelineNext ==
    \/ PipelineStart
    \/ PipelineStep
    \/ PipelineFinish

SpecPipeline == PipelineInit /\ [][PipelineNext]_vars

(***************************************************************************)
(* SpecIndexStart: runFileIndexing before the scan (file-indexing.js       *)
(* 195-249), for every state of the configuration file, of the resource    *)
(* root and of the two manifests: each is absent, a file or a stale link   *)
(* in data/raw, and present or not in the game installation.               *)
(***************************************************************************)
\* indexFiles (201-212); the installation is the directory "game"
IndexFiles ==
    <<[name |-> "index_stillness.txt",
       path |-> <<"data", "raw", "index_stillness.txt">>,
       sourcePath |-> <<"game", "index_stillness.txt">>],
      [name |-> "resfileindex.txt",
       path |-> <<"data", "raw", "resfileindex.txt">>,
       sourcePath |-> <<"game", "stillness", "resfileindex.txt">>]>>

\* A loop body that takes every manifest for available.
LinkIndexFileAlways(s, r, indexFile) ==
    [s EXCEPT !.available = Append(@, indexFile.name)]

\* The body of the loop over indexFiles (224-236); s holds the filesystem and
\* availableIndexes so far.
LinkIndexFile(s, r, indexFile) ==
    IF ExistsSync(s.fs, indexFile.path) \/ ExistsSync(s.fs, indexFile.sourcePath)
    THEN [fs |-> IF ~ExistsSync(s.fs, indexFile.path)
                    /\ ExistsSync(s.fs, indexFile.sourcePath)
                 THEN CreateSymlink(s.fs, r, indexFile.sourcePath, indexFile.path).fs
                 ELSE s.fs,
          available |-> Append(s.available, indexFile.name)]
    ELSE s

IndexStartInit ==
    /\ loaded \in [config : {"absent", "invalid", "valid"}, resFiles : BOOLEAN,
                   target : [1..2 -> {"absent", "file", "stale"}],
                   source : [1..2 -> BOOLEAN], locked : BOOLEAN]
    /\ \E base \in {IF loaded.resFiles THEN TreeAfterSetup
                    ELSE Remove(TreeAfterSetup, ResFilesPath)} :
           fs = [p \in DOMAIN base
                       \cup {IndexFiles[i].path : i \in {j \in 1..2 : loaded.target[j] # "absent"}}
                       \cup {IndexFiles[i].sourcePath : i \in {j \in 1..2 : loaded.source[j]}} |->
                    IF p \in DOMAIN base THEN base[p]
                    ELSE IF \E i \in 1..2 : p = IndexFiles[i].path /\ loaded.target[i] = "stale"
                    THEN LinkNode(<<"game", "removed">>)
                    ELSE FileNode("plain")]
    /\ ro = IF loaded.locked THEN {RawDir} ELSE {}
    /\ derived = [before |-> fs, error |-> "", available |-> <<>>, collector |-> FALSE]
    /\ pc = "start"
    /\ li = 0
    /\ stats = NewStats
    /\ lastCall = <<>>
    /\ pline = <<>>
    /\ pout = <<>>
    /\ manifests = <<>>
    /\ run = 0
    /\ mi = 0
    /\ processedInThisFile = 0
    /\ returned = <<>>
    /\ trace = <<>>
    /\ prevLinks = {}
    /\ sameInputs = 0
    /\ updated = FALSE

\* runFileIndexing up to the first processIndexFile (195-249): process.exit(1)
\* from loadConfiguration or files.requireExists, the error of line 239, an
\* error of ensureDirectories, or a new StatsCollector and the scan.
IndexStart ==
    /\ pc = "start"
    /\ \E s \in {LinkIndexFile(LinkIndexFile([fs |-> fs, available |-> <<>>], ro,
                                             IndexFiles[1]), ro, IndexFiles[2])} :
           \E e \in {EnsureDirectories(s.fs, ro, <<SchemaDir>>)} :
               \E error \in {IF loaded.config # "valid" THEN "config"
                             ELSE IF ~ExistsSync(fs, ResFilesPath) THEN "resfiles"
                             ELSE IF s.available = <<>> THEN "noindex"
                             ELSE IF e.err # "" THEN "mkdir" ELSE ""} :
                   /\ fs' = IF error \in {"config", "resfiles"} THEN fs
                            ELSE IF error = "noindex" THEN s.fs ELSE e.fs
                   /\ derived' = [derived EXCEPT
                                      !.error = error,
                                      !.available = IF error \in {"config", "resfiles"}
                                                    THEN <<>> ELSE s.available,
                                      !.collector = (error = "")]
                   /\ pc' = IF error \in {"config", "resfiles"} THEN "exited"
                            ELSE IF error = "" THEN "scan" ELSE "thrown"
    /\ UNCHANGED <<pline, pout, ro, lastCall, manifests, run, mi, li, stats,
                   processedInThisFile, returned, trace, prevLinks, sameInputs, updated,
                   loaded>>

IndexStartNext == IndexStart

SpecIndexStart == IndexStartInit /\ [][IndexStartNext]_vars

(***************************************************************************)
(* SpecCleanup: runCleanup (cleanup.js) over a project root in which each  *)
(* target is present or not; bin64 is absent, a directory, a link to the   *)
(* game's bin64 or a link whose target is gone.  loaded.locked holds the   *)
(* paths whose removal fails (EPERM, EBUSY).                               *)
(***************************************************************************)
MaxLocked == 1

\* removeDirectory (19-33): fs.promises.rm(dirPath, {recursive, force}) when
\* existsSync finds it, true when it does not, false when rm throws.
RemoveDirectory(f, locked, p) ==
    IF ExistsSync(f, p)
    THEN IF p \in locked THEN [ok |-> FALSE, fs |-> f]
         ELSE [ok |-> TRUE, fs |-> [q \in {x \in DOMAIN f : ~IsUnder(x, p)} |-> f[q]]]
    ELSE [ok |-> TRUE, fs |-> f]

\* removeFile (38-52): fs.promises.unlink when existsSync finds it.
RemoveFile(f, locked, p) ==
    IF ExistsSync(f, p)
    THEN IF p \in locked THEN [ok |-> FALSE, fs |-> f]
         ELSE [ok |-> Unlink(f, {}, p).err = "", fs |-> Unlink(f, {}, p).fs]
    ELSE [ok |-> TRUE, fs |-> f]

RECURSIVE RemoveUntilFailure(_, _, _, _)
\* Loops that stop at the first removal that fails.
RemoveUntilFailure(s, locked, targets, i) ==
    IF i > Len(targets) \/ (\E k \in 1..Len(s.log) : ~s.log[k].ok) THEN s
    ELSE LET t == targets[i]
             r == IF t.how = "dir"
                     \/ (t.how = "deep" /\ Lstat(s.fs, t.path) = "dir")
                  THEN RemoveDirectory(s.fs, locked, t.path)
                  ELSE RemoveFile(s.fs, locked, t.path)
         IN RemoveUntilFailure([fs |-> r.fs,
                                log |-> Append(s.log, [path |-> t.path, ok |-> r.ok])],
                               locked, targets, i + 1)

RECURSIVE RemoveEach(_, _, _, _)
\* The loops of runCleanup (83-86, 95-98, 108-125) from target i on: a "dir"
\* target goes to removeDirectory, a "file" target to removeFile, a deep
\* target to the one lstatSync chooses (a link is not a directory); s holds
\* the filesystem and, per target, whether its removal succeeded.
RemoveEach(s, locked, targets, i) ==
    IF i > Len(targets) THEN s
    ELSE LET t == targets[i]
             r == IF t.how = "dir"
                     \/ (t.how = "deep" /\ Lstat(s.fs, t.path) = "dir")
                  THEN RemoveDirectory(s.fs, locked, t.path)
                  ELSE RemoveFile(s.fs, locked, t.path)
         IN RemoveEach([fs |-> r.fs, log |-> Append(s.log, [path |-> t.path, ok |-> r.ok])],
                       locked, targets, i + 1)

CleanupInit ==
    /\ loaded \in [force : BOOLEAN, deep : BOOLEAN, data : BOOLEAN,
                   bin64 : {"absent", "dir", "link", "broken"}, pyd : BOOLEAN,
                   config : BOOLEAN, python : BOOLEAN, results : BOOLEAN,
                   modules : BOOLEAN,
                   locked : {l \in SUBSET {<<"data">>, <<"bin64">>, <<"pyd">>,
                                           <<".eve-frontier-path">>, <<".python312-path">>,
                                           <<"pipeline_results.json">>, <<"node_modules">>} :
                                 Cardinality(l) <= MaxLocked}]
    /\ fs = [p \in (IF loaded.data THEN {<<"data">>, RawDir} ELSE {})
                   \cup (IF loaded.bin64 # "absent" THEN {<<"bin64">>} ELSE {})
                   \cup (IF loaded.bin64 = "dir" THEN {<<"bin64", "exefile.exe">>} ELSE {})
                   \cup (IF loaded.bin64 = "link" THEN {<<"game">>, <<"game", "bin64">>} ELSE {})
                   \cup (IF loaded.pyd THEN {<<"pyd">>} ELSE {})
                   \cup (IF loaded.config THEN {<<".eve-frontier-path">>} ELSE {})
                   \cup (IF loaded.python THEN {<<".python312-path">>} ELSE {})
                   \cup (IF loaded.results THEN {<<"pipeline_results.json">>} ELSE {})
                   \cup (IF loaded.modules THEN {<<"node_modules">>} ELSE {}) |->
                IF p = <<"bin64">> /\ loaded.bin64 \in {"link", "broken"}
                THEN LinkNode(<<"game", "bin64">>)
                ELSE IF p \in {<<".eve-frontier-path">>, <<".python312-path">>,
                               <<"pipeline_results.json">>, <<"bin64", "exefile.exe">>}
                THEN FileNode("plain")
                ELSE DirNode]
    /\ ro = {}
    /\ derived = [before |-> fs, returned |-> FALSE, log |-> <<>>]
    /\ pc = "start"
    /\ li = 0
    /\ stats = NewStats
    /\ lastCall = <<>>
    /\ pline = <<>>
    /\ pout = <<>>
    /\ manifests = <<>>
    /\ run = 0
    /\ mi = 0
    /\ processedInThisFile = 0
    /\ returned = <<>>
    /\ trace = <<>>
    /\ prevLinks = {}
    /\ sameInputs = 0
    /\ updated = FALSE

\* runCleanup (57-149): false at line 69 without options.force; otherwise the
\* three directories, the two configuration files and, under options.deep,
\* the two generated entries, and errorCount === 0.
CleanupRun ==
    /\ pc = "start"
    /\ \E s \in {IF ~loaded.force THEN [fs |-> fs, log |-> <<>>]
                 ELSE RemoveEach([fs |-> fs, log |-> <<>>], loaded.locked,
                                 <<[path |-> <<"data">>, how |-> "dir"],
                                   [path |-> <<"bin64">>, how |-> "dir"],
                                   [path |-> <<"pyd">>, how |-> "dir"],
                                   [path |-> <<".eve-frontier-path">>, how |-> "file"],
                                   [path |-> <<".python312-path">>, how |-> "file"]>>
                                 \o (IF loaded.deep
                                     THEN <<[path |-> <<"pipeline_results.json">>,
                                             how |-> "deep"],
                                            [path |-> <<"node_modules">>, how |-> "deep"]>>
                                     ELSE <<>>), 1)} :
           /\ fs' = s.fs
           /\ derived' = [derived EXCEPT
                              !.returned = loaded.force
                                           /\ \A k \in 1..Len(s.log) : s.log[k].ok,
                              !.log = s.log]
    /\ pc' = "done"
    /\ UNCHANGED <<pline, pout, ro, lastCall, manifests, run, mi, li, stats,
                   processedInThisFile, returned, trace, prevLinks, sameInputs, updated,
                   loaded>>

CleanupNext == CleanupRun

SpecCleanup == CleanupInit /\ [][CleanupNext]_vars

(***************************************************************************)
(* SpecSetup: runSetup (setup.js) with an answer to the path prompt that   *)
(* is empty or names the directory "game", an installation in which each   *)
(* marker is present or not, a Python 3.12 that is found, given at the     *)
(* prompt or not valid, and a project root in which bin64, data/raw, the   *)
(* link targets and the two configuration files are absent or in the way.  *)
(***************************************************************************)
\* validate.installation (utils.js 415-453)
ValidateInstallation(f, basePath) ==
    /\ ExistsSync(f, basePath \o <<"stillness", "bin64", "exefile.exe">>)
    /\ ExistsSync(f, basePath \o <<"index_stillness.txt">>)
    /\ ExistsSync(f, basePath \o <<"ResFiles">>)

\* The links of createSymlinks in the order it makes them: bin64 (146-158),
\* the two manifests (161-191) and ResFiles (194-208).
SetupLinks(basePath) ==
    <<[source |-> basePath \o <<"stillness", "bin64">>, target |-> <<"bin64">>,
       clear |-> "rm", needSource |-> FALSE],
      [source |-> basePath \o <<"index_stillness.txt">>,
       target |-> Append(RawDir, "index_stillness.txt"),
       clear |-> "unlink", needSource |-> TRUE],
      [source |-> basePath \o <<"stillness", "resfileindex.txt">>,
       target |-> Append(RawDir, "resfileindex.txt"),
       clear |-> "unlink", needSource |-> TRUE],
      [source |-> basePath \o <<"ResFiles">>, target |-> ResFilesPath,
       clear |-> "unlink", needSource |-> FALSE]>>

RECURSIVE CreateSymlinksUncaught(_, _, _, _)
\* createSymlinks without its try blocks: the first link that fails throws.
CreateSymlinksUncaught(s, r, basePath, i) ==
    IF i = 0
    THEN LET m == MkdirSync(s.fs, r, RawDir)
         IN IF m.err # "" THEN [s EXCEPT !.fs = m.fs, !.err = m.err]
            ELSE CreateSymlinksUncaught([s EXCEPT !.fs = m.fs], r, basePath, 1)
    ELSE IF i > Len(SetupLinks(basePath)) THEN s
    ELSE LET l == SetupLinks(basePath)[i]
             cleared == IF ~ExistsSync(s.fs, l.target) THEN [err |-> "", fs |-> s.fs]
                        ELSE IF l.clear = "unlink" THEN Unlink(s.fs, r, l.target)
                        ELSE IF Dirname(l.target) \in r THEN [err |-> "EACCES", fs |-> s.fs]
                        ELSE [err |-> "",
                              fs |-> [q \in {x \in DOMAIN s.fs : ~IsUnder(x, l.target)} |->
                                         s.fs[q]]]
             linked == IF cleared.err # "" THEN cleared
                       ELSE IF l.needSource /\ ~ExistsSync(cleared.fs, l.source) THEN cleared
                       ELSE Symlink(cleared.fs, r, l.source, l.target)
         IN IF linked.err # "" THEN [s EXCEPT !.fs = linked.fs, !.err = linked.err]
            ELSE CreateSymlinksUncaught([s EXCEPT !.fs = linked.fs], r, basePath, i + 1)

RECURSIVE CreateSymlinks(_, _, _, _)
\* createSymlinks (132-215) from step i on: step 0 is the two mkdir calls of
\* 140-141, outside every try block (the first, of projectRoot, succeeds);
\* steps 1..4 are the links, each in its own try.  s holds the filesystem,
\* errorCount and the error thrown, if any.
CreateSymlinks(s, r, basePath, i) ==
    IF i = 0
    THEN LET m == MkdirSync(s.fs, r, RawDir)
         IN IF m.err # "" THEN [s EXCEPT !.fs = m.fs, !.err = m.err]
            ELSE CreateSymlinks([s EXCEPT !.fs = m.fs], r, basePath, 1)
    ELSE IF i > Len(SetupLinks(basePath)) THEN s
    ELSE LET l == SetupLinks(basePath)[i]
             cleared == IF ~ExistsSync(s.fs, l.target) THEN [err |-> "", fs |-> s.fs]
                        ELSE IF l.clear = "unlink" THEN Unlink(s.fs, r, l.target)
                        ELSE IF Dirname(l.target) \in r THEN [err |-> "EACCES", fs |-> s.fs]
                        ELSE [err |-> "",
                              fs |-> [q \in {x \in DOMAIN s.fs : ~IsUnder(x, l.target)} |->
                                         s.fs[q]]]
             linked == IF cleared.err # "" THEN cleared
                       ELSE IF l.needSource /\ ~ExistsSync(cleared.fs, l.source) THEN cleared
                       ELSE Symlink(cleared.fs, r, l.source, l.target)
         IN CreateSymlinks([s EXCEPT !.fs = linked.fs,
                                     !.errorCount = IF linked.err # "" THEN @ + 1 ELSE @],
                           r, basePath, i + 1)

SetupInit ==
    /\ loaded \in [path : {"", "game"}, exe : BOOLEAN, index : BOOLEAN,
                   resFiles : BOOLEAN, resIndex : BOOLEAN,
                   python : {"found", "prompted", "invalid"},
                   bin64 : {"absent", "dir", "broken"},
                   raw : {"absent", "dir", "file"},
                   indexTarget : {"absent", "file", "dir"},
                   resTarget : {"absent", "link", "dir"},
                   configFile : {"absent", "file", "dir"},
                   pythonFile : {"absent", "dir"}]
    /\ ro \in {{}, {<<>>}, {RawDir}}
    /\ fs = [p \in {<<"game">>, <<"game", "stillness">>, <<"game", "stillness", "bin64">>}
                   \cup (IF loaded.exe
                         THEN {<<"game", "stillness", "bin64", "exefile.exe">>} ELSE {})
                   \cup (IF loaded.index THEN {<<"game", "index_stillness.txt">>} ELSE {})
                   \cup (IF loaded.resIndex
                         THEN {<<"game", "stillness", "resfileindex.txt">>} ELSE {})
                   \cup (IF loaded.resFiles THEN {<<"game", "ResFiles">>} ELSE {})
                   \cup (IF loaded.bin64 # "absent" THEN {<<"bin64">>} ELSE {})
                   \cup (IF loaded.raw # "absent" THEN {<<"data">>, RawDir} ELSE {})
                   \cup (IF loaded.raw = "dir" /\ loaded.indexTarget # "absent"
                         THEN {Append(RawDir, "index_stillness.txt")} ELSE {})
                   \cup (IF loaded.raw = "dir" /\ loaded.resTarget # "absent"
                         THEN {ResFilesPath} ELSE {})
                   \cup (IF loaded.configFile # "absent"
                         THEN {<<".eve-frontier-path">>} ELSE {})
                   \cup (IF loaded.pythonFile # "absent"
                         THEN {<<".python312-path">>} ELSE {}) |->
                IF p = <<"bin64">> /\ loaded.bin64 = "broken"
                THEN LinkNode(<<"removed", "bin64">>)
                ELSE IF p = ResFilesPath /\ loaded.resTarget = "link"
                THEN LinkNode(<<"game", "ResFiles">>)
                ELSE IF \/ p \in {<<"game", "stillness", "bin64", "exefile.exe">>,
                                  <<"game", "index_stillness.txt">>,
                                  <<"game", "stillness", "resfileindex.txt">>}
                        \/ p = RawDir /\ loaded.raw = "file"
                        \/ p = Append(RawDir, "index_stillness.txt")
                               /\ loaded.indexTarget = "file"
                        \/ p = <<".eve-frontier-path">> /\ loaded.configFile = "file"
                THEN FileNode("plain")
                ELSE DirNode]
    /\ derived = [before |-> fs, returned |-> FALSE, stage |-> "", errorCount |-> 0]
    /\ pc = "start"
    /\ li = 0
    /\ stats = NewStats
    /\ lastCall = <<>>
    /\ pline = <<>>
    /\ pout = <<>>
    /\ manifests = <<>>
    /\ run = 0
    /\ mi = 0
    /\ processedInThisFile = 0
    /\ returned = <<>>
    /\ trace = <<>>
    /\ prevLinks = {}
    /\ sameInputs = 0
    /\ updated = FALSE

\* runSetup (220-267) with configurePython312 (102-130) and saveConfiguration
\* (utils.js 77-85); stage is the place it returned from: "path" (227),
\* "validate" (232), "python" (237), "catch" (265), "save" (253) or "ok" (261).
RunSetup ==
    /\ pc = "start"
    /\ \E py \in {WriteFile(fs, ro, <<".python312-path">>, "python")} :
       \E c \in {CreateSymlinks([fs |-> py.fs, errorCount |-> 0, err |-> ""], ro,
                                <<"game">>, 0)} :
       \E save \in {WriteFile(c.fs, ro, <<".eve-frontier-path">>, "setupCompleted")} :
       \E stage \in {IF loaded.path = "" THEN "path"
                     ELSE IF ~ValidateInstallation(fs, <<"game">>) THEN "validate"
                     ELSE IF loaded.python = "invalid" \/ py.err # "" THEN "python"
                     ELSE IF c.err # "" THEN "catch"
                     ELSE IF save.err # "" THEN "save" ELSE "ok"} :
           /\ fs' = IF stage \in {"path", "validate", "python"} THEN fs
                    ELSE IF stage = "catch" THEN c.fs ELSE save.fs
           /\ derived' = [derived EXCEPT
                              !.returned = (stage = "ok"),
                              !.stage = stage,
                              !.errorCount = IF stage \in {"save", "ok"}
                                             THEN c.errorCount ELSE 0]
    /\ pc' = "done"
    /\ UNCHANGED <<pline, pout, ro, lastCall, manifests, run, mi, li, stats,
                   processedInThisFile, returned, trace, prevLinks, sameInputs, updated,
                   loaded>>

SetupNext == RunSetup

SpecSetup == SetupInit /\ [][SetupNext]_vars

(***************************************************************************)
(* Properties.                                                             *)
(***************************************************************************)
\* C1: during the scan, an entry whose source file does not exist under the
\* resource root is skipped and not counted: no handler runs, no symlink is
\* made, and neither totalProcessed nor the per-file count goes up for it.
C1_MissingSourceNotCounted ==
    \A k \in 1..Len(trace) :
        (trace[k].entry.matched /\ ~trace[k].sourceExists) =>
            /\ trace[k].handler = "none"
            /\ trace[k].calls = <<>>
            /\ StatsGet(trace[k].statsAfter, "totalProcessed")
                   = StatsGet(trace[k].statsBefore, "totalProcessed")
            /\ trace[k].countAfter = trace[k].countBefore

\* C2: createSymlink(source, target) with a target that exists as a regular
\* file, as a symlink or as a broken symlink, in a writable directory, removes
\* it and makes the link: it returns true and target names source afterwards.
C2_ExistingTargetReplaced ==
    (/\ lastCall # <<>>
     /\ lastCall[1].before \in {"file", "link", "broken"}
     /\ Dirname(LinkTarget) \notin ro) =>
        /\ lastCall[1].settle = "resolved"
        /\ lastCall[1].value
        /\ LinkTarget \in DOMAIN fs
        /\ fs[LinkTarget] = LinkNode(lastCall[1].source)

\* C3: a run of the index step over the manifests and source files of the
\* run before it, in a writable tree, ends with the target-to-source mapping
\* that run ended with, and every target it called createSymlink on is a
\* symlink to an existing file (none broken, none missing).
C3_RerunIdempotent ==
    (pc = "done" /\ sameInputs >= 2 /\ ro = {}) =>
        /\ LinksOf(fs) = prevLinks
        /\ \A k \in 1..Len(trace) : \A j \in 1..Len(trace[k].calls) :
               Lstat(fs, trace[k].calls[j].target) = "link"

\* C4: a handler that throws does not abort the scan: the scan never fails
\* on a line, every line of every manifest is still handled, and
\* processIndexFile returns the count of each manifest.
C4_ThrowDoesNotAbortScan ==
    /\ pc = "failed" => trace = <<>>
    /\ pc = "done" =>
           /\ Len(returned) = 2
           /\ \A i \in 1..2 :
                  /\ \A l \in 1..Len(manifests[i]) :
                         \E k \in 1..Len(trace) : trace[k].mi = i /\ trace[k].li = l
                  /\ returned[i] = Cardinality({k \in 1..Len(trace) :
                                                   trace[k].mi = i /\ trace[k].counted})

\* A finished run in which a handler threw and a later line was dispatched.
C4_Witness ==
    /\ pc = "done"
    /\ \E k \in 1..Len(trace) :
           /\ trace[k].caught
           /\ \E l \in (k + 1)..Len(trace) : trace[l].handler # "none"

\* C5: createSymlink never rejects: in every state of the tree its promise
\* resolves to a boolean, true exactly when the symlink call succeeded (and
\* the target then names the source), false otherwise.
C5_AlwaysResolvesBoolean ==
    lastCall # <<>> =>
        /\ lastCall[1].settle = "resolved"
        /\ lastCall[1].value \in BOOLEAN
        /\ lastCall[1].value <=>
               (/\ lastCall[1].sys # <<>>
                /\ lastCall[1].sys[Len(lastCall[1].sys)] = "symlink:")
        /\ lastCall[1].value =>
               (LinkTarget \in DOMAIN fs /\ fs[LinkTarget] = LinkNode(lastCall[1].source))

\* A call on a target that is a directory, resolved to false.
C5_Witness ==
    /\ lastCall # <<>>
    /\ lastCall[1].before = "dir"
    /\ lastCall[1].settle = "resolved"
    /\ lastCall[1].value = FALSE

\* C6: for a static entry with an existing source, whatever happens to the
\* data/static symlink: a source without the 16-byte SQLite header is never
\* linked at data/sqlite/<name>.sqlite, and a source with it is linked there
\* (the directory being writable) with sqliteLinked and staticLinked both
\* incremented.
C6_SqliteLinkedIffHeader ==
    \A k \in 1..Len(trace) :
        LET t == trace[k]
            sqlitePath == <<"data", "sqlite", Str(t.entry.filename) \o ".sqlite">>
            linkedThere == \E j \in 1..Len(t.calls) :
                               t.calls[j].target = sqlitePath /\ t.calls[j].value
        IN t.handler = "static" =>
               /\ t.sourceData # SqliteHeader => ~linkedThere
               /\ (t.sourceData = SqliteHeader /\ DataDir("sqlite") \notin ro) =>
                      /\ linkedThere
                      /\ StatsGet(t.statsAfter, "sqliteLinked")
                             = StatsGet(t.statsBefore, "sqliteLinked") + 1
                      /\ StatsGet(t.statsAfter, "staticLinked")
                             = StatsGet(t.statsBefore, "staticLinked") + 1

\* C7: a branch whose symlink is created increments a counter of its
\* category, and a branch whose symlink creation fails increments an error
\* counter of the statistics and the scan goes on.
C7_FailureCounted ==
    \A k \in 1..Len(trace) :
        LET t == trace[k]
            success == {"pickleConverted", "staticLinked", "sqliteLinked",
                        "fsdbinaryLinked", "schemaLinked", "otherLinked"}
            grew == {key \in DOMAIN t.statsAfter :
                        StatsGet(t.statsAfter, key) > StatsGet(t.statsBefore, key)}
        IN (t.handler # "none" /\ t.calls # <<>>) =>
               /\ t.calls[1].value => grew \cap (success \cup {"pickleErrors"}) # {}
               /\ (\E j \in 1..Len(t.calls) : ~t.calls[j].value) =>
                      /\ grew \ (success \cup {"totalProcessed"}) # {}
                      /\ pc # "failed"

C9_ParserExact ==
    pout # <<>> =>
        LET o == pout[1]
            n == Len(pline)
            comma == FirstAt(pline, ",", 1)
            slash == LastIn(pline, "/", 1, comma - 1)
            dot == LastIn(pline, ".", slash + 1, comma - 1)
            next == FirstAt(pline, ",", comma + 1)
            end == IF next = 0 THEN n ELSE next - 1
            malformed == comma = 0 \/ dot = 0 \/ dot = comma - 1
            wellFormed == /\ ~malformed
                          /\ dot > slash + 1
                          /\ end > comma
        IN /\ wellFormed =>
                  /\ o.entry.matched
                  /\ o.entry.respath = SubSeq(pline, 1, slash)
                  /\ o.entry.filename = SubSeq(pline, slash + 1, dot - 1)
                  /\ o.entry.filetype = SubSeq(pline, dot + 1, comma - 1)
                  /\ o.entry.sourceRelativePath = SubSeq(pline, comma + 1, end)
           /\ malformed =>
                  /\ ~o.entry.matched
                  /\ o.handler = "none"
                  /\ ~o.counted
                  /\ o.totalProcessed = 0

\* C10: for every matching line the logical path ends at the last separator
\* before the file name, the stem is a run of non-separator characters and
\* the type holds no separator; res:/a.b/c.txt,x yields stem c and type txt.
C10_StemAndTypeWithoutSeparator ==
    (pout # <<>> /\ pout[1].entry.matched) =>
        LET e == pout[1].entry
        IN /\ \A k \in 1..Len(e.filetype) : e.filetype[k] # "/"
           /\ \A k \in 1..Len(e.filename) : e.filename[k] # "/"
           /\ e.respath = <<>> \/ e.respath[Len(e.respath)] = "/"
           /\ pline = DottedDirectoryLine =>
                  /\ Str(e.filename) = "c"
                  /\ Str(e.filetype) = "txt"

\* C11: for every matching line the physical path extracted is the text
\* between the first comma of the line and the next comma (or the line end),
\* whatever trailing fields follow and wherever dots stand.
C11_PhysicalPathAfterFirstComma ==
    (pout # <<>> /\ pout[1].entry.matched) =>
        LET comma == FirstAt(pline, ",", 1)
            next == FirstAt(pline, ",", comma + 1)
            end == IF next = 0 THEN Len(pline) ELSE next - 1
        IN /\ comma > 0
           /\ pout[1].entry.sourceRelativePath = SubSeq(pline, comma + 1, end)

\* C12: the subdirectory of an entry of the generic branch is its logical
\* path with a leading res: stripped (a res: elsewhere stays), every other
\* ":" and "\" replaced by "_" and leading underscores trimmed; it holds no
\* ":" and no "\" and does not start with "_".
C12_SanitizedDirectory ==
    pout # <<>> =>
        LET n == Len(pline)
            stripped == IF n >= 4 /\ SubSeq(pline, 1, 4) = <<"r", "e", "s", ":">>
                        THEN SubSeq(pline, 5, n) ELSE pline
            mapped == [k \in 1..Len(stripped) |->
                          IF stripped[k] \in {":", "\\"} THEN "_" ELSE stripped[k]]
            kept == {k \in 1..Len(mapped) : mapped[k] # "_"}
            expected == IF kept = {} THEN <<>>
                        ELSE SubSeq(mapped, Min(kept), Len(mapped))
            clean == pout[1].cleanPath
        IN /\ pout[1].handler = "other"
           /\ \A k \in 1..Len(clean) : clean[k] \notin {":", "\\"}
           /\ clean = <<>> \/ clean[1] # "_"
           /\ clean = expected

\* C13: the scan handles the lines in file order, each once: the k-th
\* iteration of a run is on the k-th line of the manifests taken one after
\* the other, the second manifest starts only after the first returned, and a
\* handler has finished before the next line is dispatched (a symlink made
\* for one line is what the next line finds at that target).
C13_LinesInFileOrder ==
    LET first == Len(manifests[1])
    IN /\ Len(trace) <= first + Len(manifests[2])
       /\ \A k \in 1..Len(trace) :
              /\ trace[k].mi = IF k <= first THEN 1 ELSE 2
              /\ trace[k].li = IF k <= first THEN k ELSE k - first
              /\ trace[k].entry = LineEntries[manifests[trace[k].mi][trace[k].li]]
              /\ trace[k].mi = 2 => Len(returned) >= 1
       /\ \A k \in 1..(Len(trace) - 1) :
              \A i \in 1..Len(trace[k].calls), j \in 1..Len(trace[k + 1].calls) :
                  (/\ trace[k].calls[i].value
                   /\ trace[k].calls[i].target = trace[k + 1].calls[j].target) =>
                      trace[k + 1].calls[j].before = "link"

\* A finished run in which two lines of a manifest went to the same target,
\* the later one replacing the link of the earlier one.
C13_Witness ==
    /\ pc = "done"
    /\ \E k \in 1..(Len(trace) - 1) :
           /\ trace[k].mi = trace[k + 1].mi
           /\ trace[k].calls # <<>> /\ trace[k + 1].calls # <<>>
           /\ trace[k].calls[1].value /\ trace[k + 1].calls[1].value
           /\ trace[k].calls[1].target = trace[k + 1].calls[1].target
           /\ trace[k].calls[1].source # trace[k + 1].calls[1].source
           /\ fs[trace[k + 1].calls[1].target] = LinkNode(trace[k + 1].calls[1].source)

\* C14: over any sequence of increment and set calls no counter of a
\* StatsCollector decreases; only constructing a new collector resets one.
C14_CountersNeverDecrease ==
    [][(lastCall' # <<>> /\ lastCall'[1].op # "new") =>
           \A k \in DOMAIN stats : StatsGet(stats', k) >= StatsGet(stats, k)]_vars

\* C15: get(key) returns 0 for a key never written and the stored value
\* otherwise; increment(key, amount) raises get(key) by amount and changes no
\* other key; set(key, value) makes get(key) equal value; summary() returns
\* every counter written with its stored value, plus processingTime and
\* generatedAt, and leaves the collector as it was.
C15_StatsCollectorContract ==
    lastCall # <<>> =>
        LET c == lastCall[1]
            others == (DOMAIN stats \cup DOMAIN c.before) \ {c.key}
        IN /\ c.op = "get" =>
                  /\ c.ret = IF c.key \in DOMAIN c.before THEN c.before[c.key] ELSE 0
                  /\ stats = c.before
           /\ c.op = "increment" =>
                  /\ StatsGet(stats, c.key) = StatsGet(c.before, c.key) + c.arg
                  /\ \A k \in others : k \in DOMAIN stats /\ k \in DOMAIN c.before
                                         /\ stats[k] = c.before[k]
           /\ c.op = "set" =>
                  /\ StatsGet(stats, c.key) = c.arg
                  /\ \A k \in others : k \in DOMAIN stats /\ k \in DOMAIN c.before
                                         /\ stats[k] = c.before[k]
           /\ c.op = "summary" =>
                  /\ stats = c.before
                  /\ {"processingTime", "generatedAt"} \subseteq DOMAIN c.ret
                  /\ \A k \in DOMAIN c.before :
                         /\ k \in DOMAIN c.ret
                         /\ c.ret[k][1] = "counter"
                         /\ c.ret[k][2] = c.before[k]

\* C16: a blueprint lacking a manufacturing activity is in neither the forward
\* nor the reverse map, yet it is counted: totalBlueprints is the number of
\* input blueprints and manufacturingBlueprints the number of forward-map keys.
C16_NonManufacturingCountedNotMapped ==
    pc = "done" =>
        LET blueprints == loaded.blueprints
            forward == derived.blueprintToMaterials
            reverse == derived.materialToBlueprints
            Lacks(k) == \/ blueprints[k].activities.t = "undefined"
                        \/ "manufacturing" \notin DOMAIN blueprints[k].activities.v
                        \/ blueprints[k].activities.v.manufacturing.t = "null"
        IN /\ \A k \in DOMAIN blueprints :
                  Lacks(k) =>
                      /\ k \notin DOMAIN forward
                      /\ \A m \in DOMAIN reverse :
                             \A u \in 1..Len(reverse[m].usedInBlueprints) :
                                 ToString(reverse[m].usedInBlueprints[u].blueprintID) # k
           /\ StatsGet(stats, "totalBlueprints") = Cardinality(DOMAIN blueprints)
           /\ StatsGet(stats, "manufacturingBlueprints") = Cardinality(DOMAIN forward)
           /\ DOMAIN forward = {k \in DOMAIN blueprints : ~Lacks(k)}

C16_Witness ==
    /\ pc = "done"
    /\ \E k \in DOMAIN loaded.blueprints : loaded.blueprints[k].activities.t = "undefined"
    /\ \E k \in DOMAIN loaded.blueprints : k \in DOMAIN derived.blueprintToMaterials
    /\ DOMAIN derived.materialToBlueprints # {}

\* C17: under material m the reverse map lists {blueprintID b, quantityRequired q}
\* once for each material record {typeID m, quantity q} of manufacturing
\* blueprint b and nothing else; every name comes from the type-name table, or
\* is "Type <id>" / "Blueprint <id>" for an id without a name.
C17_ForwardReverseConsistent ==
    pc = "done" =>
        LET blueprints == loaded.blueprints
            typeNames == loaded.typeNames
            forward == derived.blueprintToMaterials
            reverse == derived.materialToBlueprints
            Named17(key) == key \in DOMAIN typeNames /\ typeNames[key].v # ""
            TypeLabel(id) == IF Named17(ToString(id)) THEN typeNames[ToString(id)].v
                             ELSE "Type " \o ToString(id)
            BlueprintLabel(k) == IF Named17(k) THEN typeNames[k].v ELSE "Blueprint " \o k
            Records(k) ==
                IF k \in DOMAIN forward /\ blueprints[k].activities.v.manufacturing.v.materials.t = "array"
                THEN blueprints[k].activities.v.manufacturing.v.materials.v ELSE <<>>
            Usages(m) == IF ToString(m) \in DOMAIN reverse
                         THEN reverse[ToString(m)].usedInBlueprints ELSE <<>>
        IN /\ \A m \in {34, 35}, b \in 1..MaxBlueprints, q \in {10, 20} :
                  Cardinality({u \in 1..Len(Usages(m)) :
                                   /\ Usages(m)[u].blueprintID = b
                                   /\ Usages(m)[u].quantityRequired = q})
                  = IF ToString(b) \in DOMAIN blueprints
                    THEN Cardinality({i \in 1..Len(Records(ToString(b))) :
                                         /\ Records(ToString(b))[i].typeID = m
                                         /\ Records(ToString(b))[i].quantity = q})
                    ELSE 0
           /\ \A key \in DOMAIN reverse :
                  /\ key \in {"34", "35"}
                  /\ Len(reverse[key].usedInBlueprints) > 0
                  /\ reverse[key].materialName = TypeLabel(ParseInt(key))
                  /\ \A u \in 1..Len(reverse[key].usedInBlueprints) :
                         /\ reverse[key].usedInBlueprints[u].blueprintID \in 1..MaxBlueprints
                         /\ reverse[key].usedInBlueprints[u].quantityRequired \in {10, 20}
                         /\ reverse[key].usedInBlueprints[u].blueprintName
                                = BlueprintLabel(ToString(reverse[key].usedInBlueprints[u].blueprintID))
           /\ \A k \in DOMAIN forward :
                  /\ forward[k].blueprintName = BlueprintLabel(k)
                  /\ Len(forward[k].materials) = Len(Records(k))
                  /\ \A i \in 1..Len(forward[k].materials) :
                         /\ forward[k].materials[i].typeID = Records(k)[i].typeID
                         /\ forward[k].materials[i].quantity = Records(k)[i].quantity
                         /\ forward[k].materials[i].name = TypeLabel(Records(k)[i].typeID)
                  /\ \A i \in 1..Len(forward[k].products) :
                         forward[k].products[i].name = TypeLabel(forward[k].products[i].typeID)

C17_Witness ==
    /\ pc = "done"
    /\ "34" \in DOMAIN derived.materialToBlueprints
    /\ Len(derived.materialToBlueprints["34"].usedInBlueprints) > MaxBlueprints
    /\ derived.materialToBlueprints["34"].materialName = "Tritanium"
    /\ "35" \in DOMAIN derived.materialToBlueprints
    /\ derived.materialToBlueprints["35"].materialName = "Type 35"
    /\ \E k \in DOMAIN derived.blueprintToMaterials :
           derived.blueprintToMaterials[k].blueprintName = "Blueprint " \o k

\* C18: a type is in the all-names map iff its name is non-empty, and in the
\* published map iff moreover published === 1; every type record is in exactly
\* one group list, the one of its groupID; publishedTypes <= namedTypes <=
\* totalTypes, and the sizes of the group lists add up to totalTypes.
C18_TypeNameTables ==
    LET types == loaded.types
        groups == derived.typesByGroup
        NonEmpty(k) == types[k].typeNameID.t = "string" /\ types[k].typeNameID.v # ""
        Places(k) == {p \in (DOMAIN groups) \X (1..MaxTypes) :
                          /\ p[2] <= Len(groups[p[1]])
                          /\ groups[p[1]][p[2]].typeID = ParseInt(k)}
        GroupOf(k) == IF types[k].groupID.t = "number" THEN ToString(types[k].groupID.v)
                      ELSE "undefined"
    IN /\ StatsGet(stats, "publishedTypes") <= StatsGet(stats, "namedTypes")
       /\ StatsGet(stats, "namedTypes") <= StatsGet(stats, "totalTypes")
       /\ pc = "done" =>
              /\ \A k \in {ToString(n) : n \in 1..MaxTypes} :
                     /\ k \in DOMAIN derived.typeNames <=> (k \in DOMAIN types /\ NonEmpty(k))
                     /\ k \in DOMAIN derived.typeNames =>
                            derived.typeNames[k] = types[k].typeNameID.v
                     /\ k \in DOMAIN derived.publishedTypes <=>
                            /\ k \in DOMAIN types
                            /\ NonEmpty(k)
                            /\ types[k].published = Js("number", 1)
                     /\ k \in DOMAIN derived.publishedTypes =>
                            /\ k \in DOMAIN derived.typeNames
                            /\ derived.publishedTypes[k] = derived.typeNames[k]
                     /\ k \in DOMAIN types =>
                            /\ Cardinality(Places(k)) = 1
                            /\ \A p \in Places(k) : p[1] = GroupOf(k)
              /\ DOMAIN derived.typeNames \subseteq {ToString(n) : n \in 1..MaxTypes}
              /\ DOMAIN derived.publishedTypes \subseteq {ToString(n) : n \in 1..MaxTypes}
              /\ Cardinality({p \in (DOMAIN groups) \X (1..MaxTypes) : p[2] <= Len(groups[p[1]])})
                     = StatsGet(stats, "totalTypes")
              /\ \A g \in DOMAIN groups : Len(groups[g]) <= MaxTypes
              /\ StatsGet(stats, "totalTypes") = Cardinality(DOMAIN types)

C18_Witness ==
    /\ pc = "done"
    /\ Cardinality(DOMAIN loaded.types) = MaxTypes
    /\ Cardinality(DOMAIN derived.typeNames) > Cardinality(DOMAIN derived.publishedTypes)
    /\ DOMAIN derived.publishedTypes # {}
    /\ \E k \in DOMAIN loaded.types :
           /\ loaded.types[k].published = Js("string", "1")
           /\ k \in DOMAIN derived.typeNames
    /\ "undefined" \in DOMAIN derived.typesByGroup

\* C19: the comprehensive name of a system of solarSystems is "System_<id>"
\* when a link of its chain is missing (no label entry for it, no localization
\* entry for the message ID, no non-null first array element) and is the first
\* array element of the localization entry when the chain is complete; the
\* same for constellations ("Constellation_<id>") and regions ("Region_<id>").
C19_FallbackOrFirstElement ==
    pc = "done" =>
        LET main == loaded.mainLocalization
            enUs == loaded.enUsLocalization
            labels == IF main.t = "object" /\ "labels" \in DOMAIN main.v
                      THEN main.v.labels.v ELSE EmptyObject
            Names(pieces, prefix, id) ==
                \E i \in 1..(Len(pieces) - 1) :
                    /\ pieces[i] = prefix
                    /\ pieces[i + 1] = ToString(id)
                    /\ (i + 2 > Len(pieces) \/ pieces[i + 2] \notin {"1", "2"})
            Entries(path, prefix, id) ==
                {m \in DOMAIN labels : /\ labels[m].FullPath = path
                                       /\ labels[m].label.t = "text"
                                       /\ Names(labels[m].label.v, prefix, id)}
            Complete(m) == /\ enUs.t = "object"
                           /\ m \in DOMAIN enUs.v
                           /\ enUs.v[m].t = "array"
                           /\ Len(enUs.v[m].v) > 0
                           /\ enUs.v[m].v[1].t # "null"
            Right(obj, data, path, prefix, kind) ==
                obj.t = "object" =>
                    \A k \in DOMAIN obj.v :
                        /\ k \in DOMAIN data
                        /\ Entries(path, prefix, ParseInt(k)) = {} =>
                               data[k].name = kind \o "_" \o k
                        /\ \A m \in Entries(path, prefix, ParseInt(k)) :
                               Entries(path, prefix, ParseInt(k)) = {m} =>
                                   data[k].name = IF Complete(m) THEN enUs.v[m].v[1].v
                                                  ELSE kind \o "_" \o k
        IN /\ Right(loaded.starMapCache.solarSystems, derived.data.systems,
                    "Map/SolarSystems", "solar_system_", "System")
           /\ Right(loaded.starMapCache.constellations, derived.data.constellations,
                    "Map/Constellations", "constellation_", "Constellation")
           /\ Right(loaded.starMapCache.regions, derived.data.regions,
                    "Map/Regions", "region_", "Region")

\* C20: an ID has a message ID only if the star map lists it (as a key of its
\* kind or in a nested ID list) and a label entry with that message ID lies in
\* the category path of its kind and matches the pattern of its kind with that
\* ID; the label files hold resolved names only, never a fallback name.
C20_OwnKindOwnPath ==
    pc # "collect" =>
        LET main == loaded.mainLocalization
            enUs == loaded.enUsLocalization
            map == loaded.starMapCache
            labels == IF main.t = "object" /\ "labels" \in DOMAIN main.v
                      THEN main.v.labels.v ELSE EmptyObject
            Keys(obj) == IF obj.t = "object" THEN {ParseInt(k) : k \in DOMAIN obj.v} ELSE {}
            Nested(obj, list) ==
                IF obj.t = "object"
                THEN UNION {IF obj.v[k][list].t = "array"
                            THEN {obj.v[k][list].v[i] : i \in 1..Len(obj.v[k][list].v)}
                            ELSE {} : k \in DOMAIN obj.v}
                ELSE {}
            Listed == [systems |-> Keys(map.solarSystems)
                                       \cup Nested(map.constellations, "solarSystemIDs")
                                       \cup Nested(map.regions, "solarSystemIDs"),
                       constellations |-> Keys(map.constellations)
                                              \cup Nested(map.regions, "constellationIDs"),
                       regions |-> Keys(map.regions)]
            Names(pieces, prefix, id) ==
                \E i \in 1..(Len(pieces) - 1) :
                    /\ pieces[i] = prefix
                    /\ pieces[i + 1] = ToString(id)
                    /\ (i + 2 > Len(pieces) \/ pieces[i + 2] \notin {"1", "2"})
            Own(kind, path, prefix, kindName) ==
                /\ \A id \in DOMAIN derived.idToMessageId[kind] :
                       /\ id \in Listed[kind]
                       /\ \E m \in DOMAIN labels :
                              /\ ParseInt(m) = derived.idToMessageId[kind][id]
                              /\ labels[m].FullPath = path
                              /\ labels[m].label.t = "text"
                              /\ Names(labels[m].label.v, prefix, id)
                /\ pc = "done" =>
                       \A k \in DOMAIN derived.labelFiles[kind] :
                           /\ ParseInt(k) \in DOMAIN derived.idToMessageId[kind]
                           /\ derived.labelFiles[kind][k] # kindName \o "_" \o k
                           /\ enUs.t = "object"
                           /\ derived.labelFiles[kind][k] =
                                  enUs.v[ToString(derived.idToMessageId[kind][ParseInt(k)])].v[1].v
        IN /\ Own("systems", "Map/SolarSystems", "solar_system_", "System")
           /\ Own("constellations", "Map/Constellations", "constellation_", "Constellation")
           /\ Own("regions", "Map/Regions", "region_", "Region")

C20_Witness ==
    /\ pc = "done"
    /\ 2 \in DOMAIN derived.idToMessageId.systems
    /\ 2 \in DOMAIN derived.idToMessageId.constellations
    /\ DOMAIN derived.labelFiles.systems = {"2"}
    /\ DOMAIN derived.labelFiles.constellations = {}
    /\ "1" \in DOMAIN derived.data.systems
    /\ derived.data.systems["1"].name = "System_1"

\* C21: the caller of runPython goes on only after the promise settled; the
\* promise settles once and keeps its state, resolved exactly when the child
\* closed with exit code 0 and rejected on a non-zero code or a spawn error;
\* after a rejection runFSDBinaryConversion rethrows and has neither reported
\* success nor looked at the output files.
C21_AwaitedAndSettledOnce ==
    /\ pc \in {"returned", "thrown"} => derived.promise.state # "pending"
    /\ derived.promise.state = "resolved" <=>
           (derived.closed /\ derived.code = 0 /\ ~derived.errored)
    /\ derived.promise.state = "rejected" <=>
           (derived.errored \/ (derived.closed /\ derived.code # 0))
    /\ pc = "returned" => (derived.promise.state = "resolved" /\ derived.success)
    /\ derived.promise.state = "rejected" =>
           /\ pc \in {"awaiting", "thrown"}
           /\ ~derived.success
           /\ derived.inspected = {}
           /\ derived.results = {}

\* The child could not be started: 'error' and 'close' both rejected, and the
\* step has rethrown.
C21_Witness ==
    /\ pc = "thrown"
    /\ derived.errored /\ derived.closed
    /\ derived.promise = [state |-> "rejected", calls |-> 2]

\* C22: the pipeline process exits with code 0 when every requested step
\* succeeded and with a non-zero code when a step failed (setup returned
\* false, a step threw or ended the process, cleanup failed or was refused, a
\* step could not save its outputs); no step runs after a failing one.
C22_ExitCodeTellsSuccess ==
    pc = "exited" =>
        LET failed == {k \in DOMAIN derived.ran : derived.ran[k].outcome # "ok"}
        IN /\ (derived.stage \in {"steps", "summary"} /\ failed = {}) =>
                  derived.exit = "0"
           /\ failed # {} => derived.exit = "1"
           /\ \A k \in failed : k = Len(derived.ran)

\* C25: with `all` among the steps given (or no --steps at all), the steps
\* are index, fsdbinary, types, blueprints, stellar, preceded by setup exactly
\* when .eve-frontier-path or .python312-path is missing; cleanup is not one
\* of them, no other step runs, and a run that ends with code 0 ran them all.
C25_AllAddsSetupWhenConfigMissing ==
    (/\ derived.stage \in {"prerequisites", "steps", "summary"}
     /\ "all" \in {derived.options.steps[i] : i \in DOMAIN derived.options.steps}) =>
        /\ derived.steps =
               IF loaded.config = "absent" \/ ~loaded.python
               THEN <<"setup", "index", "fsdbinary", "types", "blueprints", "stellar">>
               ELSE <<"index", "fsdbinary", "types", "blueprints", "stellar">>
        /\ \A k \in DOMAIN derived.ran :
               /\ derived.ran[k].step # "cleanup"
               /\ derived.ran[k].step = derived.steps[k]
        /\ (pc = "exited" /\ derived.exit = "0") => Len(derived.ran) = Len(derived.steps)

\* The default command line with the Python configuration missing: setup was
\* added and all six steps ran.
C25_Witness ==
    /\ loaded.argv = <<>>
    /\ loaded.config = "valid" /\ ~loaded.python
    /\ pc = "exited" /\ derived.exit = "0"
    /\ Len(derived.ran) = 6
    /\ derived.ran[1].step = "setup"

\* C27: the steps run in the order setup, index, fsdbinary, types,
\* blueprints, stellar, cleanup whatever the order of --steps, each at most
\* once and only if it is among the steps, a step starts only after the one
\* before it returned, and stepsCompleted never exceeds the number of steps.
C27_FixedOrderEachOnce ==
    LET order == <<"setup", "index", "fsdbinary", "types", "blueprints", "stellar",
                   "cleanup">>
        at(s) == CHOOSE i \in 1..7 : order[i] = s
        ran == derived.ran
    IN /\ \A j, k \in DOMAIN ran : j < k => at(ran[j].step) < at(ran[k].step)
       /\ \A k \in DOMAIN ran :
              /\ ran[k].step \in {derived.steps[i] : i \in DOMAIN derived.steps}
              /\ k < Len(ran) => ran[k].outcome \in {"ok", "unsaved"}
       /\ StatsGet(stats, "stepsCompleted") <= Len(ran)
       /\ StatsGet(stats, "stepsCompleted") <= Len(derived.steps)

\* `--steps types,index`: index ran before types.
C27_Witness ==
    /\ derived.options.steps = <<"types", "index">>
    /\ pc = "exited" /\ derived.exit = "0"
    /\ Len(derived.ran) = 2
    /\ derived.ran[1].step = "index" /\ derived.ran[2].step = "types"
    /\ StatsGet(stats, "stepsCompleted") = 2

\* C28: a data-processing step starts only with --skip-setup, after a setup
\* step of the same run returned true, or with a readable configuration at
\* the start; without setup among the steps and without --skip-setup a
\* missing or unreadable configuration ends the process with code 1 before
\* any step; and the index step with the configuration file absent ends the
\* process before the scan, --skip-setup or not.
C28_NoDataStepWithoutPrerequisites ==
    LET ran == derived.ran
        steps == {derived.steps[i] : i \in DOMAIN derived.steps}
    IN /\ \A k \in DOMAIN ran :
              ran[k].step \in {"index", "fsdbinary", "types", "blueprints", "stellar"} =>
                  \/ derived.options.skipSetup
                  \/ /\ "setup" \in steps
                     /\ k > 1 /\ ran[1].step = "setup" /\ ran[1].outcome = "ok"
                  \/ "setup" \notin steps /\ loaded.config = "valid"
       /\ (/\ pc = "exited"
           /\ "setup" \notin steps
           /\ ~derived.options.skipSetup
           /\ loaded.config # "valid") => (derived.exit = "1" /\ ran = <<>>)
       /\ \A k \in DOMAIN ran :
              (ran[k].step = "index" /\ ran[k].config = "absent") =>
                  (ran[k].outcome = "exit" /\ k = Len(ran))

\* --skip-setup with no configuration file: the index step started and ended
\* the process.
C28_Witness ==
    /\ derived.options.skipSetup
    /\ loaded.config = "absent"
    /\ pc = "exited" /\ derived.exit = "1"
    /\ derived.ran = <<[step |-> "index", outcome |-> "exit", config |-> "absent"]>>

\* C23: when data/raw/ResFiles is missing, or neither manifest exists in
\* data/raw or in the installation, the index step ends (process.exit(1) or
\* the error of line 239) with the tree as it was, no symlink made and no
\* StatsCollector created, so before any entry; when the resource root and at
\* least one manifest are there the step does not end for a missing input and
\* goes to the scan with exactly the available manifests.
C23_MissingInputIsFatal ==
    pc # "start" =>
        LET f0 == derived.before
            available == {i \in 1..2 : \/ ExistsSync(f0, IndexFiles[i].path)
                                       \/ ExistsSync(f0, IndexFiles[i].sourcePath)}
            missing == ~ExistsSync(f0, ResFilesPath) \/ available = {}
        IN /\ (loaded.config # "valid" \/ missing) =>
                  /\ pc \in {"exited", "thrown"}
                  /\ fs = f0
                  /\ ~derived.collector
                  /\ stats = NewStats
           /\ (loaded.config = "valid" /\ ~missing) =>
                  /\ derived.error \notin {"config", "resfiles", "noindex"}
                  /\ derived.error = "" => pc = "scan"
                  /\ {derived.available[k] : k \in DOMAIN derived.available}
                         = {IndexFiles[i].name : i \in available}

\* The resource root is there but neither manifest: the step threw.
C23_Witness ==
    /\ pc = "thrown"
    /\ derived.error = "noindex"
    /\ loaded.config = "valid" /\ loaded.resFiles
    /\ fs = derived.before

\* C24: an iteration of the scan on a `pickle` entry whose symlink was made
\* increments exactly one of pickleConverted and pickleErrors, by 1; when the
\* symlink was not made both counters stay and data/json/<name>.json is as
\* it was (no conversion was attempted).
C24_ConvertedOrErrorExactlyOnce ==
    [][(/\ Len(trace') = Len(trace) + 1
        /\ trace'[Len(trace')].handler = "pickle") =>
           LET e == trace'[Len(trace')]
               converted == StatsGet(e.statsAfter, "pickleConverted")
                                - StatsGet(e.statsBefore, "pickleConverted")
               errors == StatsGet(e.statsAfter, "pickleErrors")
                             - StatsGet(e.statsBefore, "pickleErrors")
               jsonPath == Join(DataDir("json"), e.entry.filename \o JsonExt)
           IN /\ Len(e.calls) = 1
              /\ stats' = e.statsAfter /\ stats = e.statsBefore
              /\ IF e.calls[1].value
                 THEN <<converted, errors>> \in {<<1, 0>>, <<0, 1>>}
                 ELSE /\ <<converted, errors>> = <<0, 0>>
                      /\ Lstat(fs', jsonPath) = Lstat(fs, jsonPath)
                      /\ jsonPath \in DOMAIN fs => fs'[jsonPath] = fs[jsonPath]]_vars

\* A pickle entry was linked and its conversion failed.
C24_Witness ==
    \E k \in 1..Len(trace) :
        /\ trace[k].handler = "pickle"
        /\ trace[k].calls[1].value
        /\ StatsGet(trace[k].statsAfter, "pickleErrors")
               = StatsGet(trace[k].statsBefore, "pickleErrors") + 1

\* C30: at the end of a successful index step totalIndexEntries equals
\* totalProcessed and the sum of the counts processIndexFile returned, and
\* fsdbinaryLinked + schemaLinked + otherLinked + staticLinked plus the
\* number of pickle entries is at most totalProcessed.
C30_TotalsAgree ==
    pc = "done" =>
        /\ StatsGet(stats, "totalIndexEntries") = StatsGet(stats, "totalProcessed")
        /\ StatsGet(stats, "totalIndexEntries") = Sum(returned)
        /\ StatsGet(stats, "fsdbinaryLinked") + StatsGet(stats, "schemaLinked")
               + StatsGet(stats, "otherLinked") + StatsGet(stats, "staticLinked")
               + Cardinality({k \in 1..Len(trace) :
                                 /\ trace[k].entry.matched
                                 /\ Str(trace[k].entry.filetype) = "pickle"})
               <= StatsGet(stats, "totalProcessed")

\* A finished run over a pickle entry and a linked fsdbinary entry.
C30_Witness ==
    /\ pc = "done"
    /\ StatsGet(stats, "totalProcessed") = 2
    /\ StatsGet(stats, "fsdbinaryLinked") = 1
    /\ \E k \in 1..Len(trace) : trace[k].handler = "pickle"

\* C26: runCleanup without force returns false, removes nothing and attempts
\* nothing; with force it attempts the data directory, bin64, pyd and the two
\* configuration files, in that order and each whatever became of the ones
\* before, counts a target that existsSync does not find as a success, returns
\* true exactly when no removal failed, leaves everything but its targets
\* alone, and touches pipeline_results.json and node_modules only under deep.
C26_CleanupOnlyWithForce ==
    pc = "done" =>
        LET log == derived.log
            base == <<<<"data">>, <<"bin64">>, <<"pyd">>, <<".eve-frontier-path">>,
                      <<".python312-path">>>>
            extra == <<<<"pipeline_results.json">>, <<"node_modules">>>>
            attempted == {log[k].path : k \in 1..Len(log)}
        IN /\ ~loaded.force => ~derived.returned /\ fs = derived.before /\ log = <<>>
           /\ loaded.force =>
                  /\ [k \in 1..Len(log) |-> log[k].path]
                         = (IF loaded.deep THEN base \o extra ELSE base)
                  /\ \A k \in 1..Len(log) :
                         /\ ~ExistsSync(derived.before, log[k].path) => log[k].ok
                         /\ log[k].path \in loaded.locked
                                /\ ExistsSync(derived.before, log[k].path) => ~log[k].ok
                         /\ log[k].ok /\ ExistsSync(derived.before, log[k].path)
                                => log[k].path \notin DOMAIN fs
                         /\ ~log[k].ok => Lstat(fs, log[k].path)
                                              = Lstat(derived.before, log[k].path)
                  /\ derived.returned = (\A k \in 1..Len(log) : log[k].ok)
           /\ \A p \in DOMAIN derived.before :
                  (\A t \in attempted : ~IsUnder(p, t)) => p \in DOMAIN fs /\ fs[p] = derived.before[p]
           /\ DOMAIN fs \subseteq DOMAIN derived.before
           /\ ~loaded.deep => \A k \in 1..2 : extra[k] \notin attempted

\* A forced, deep cleanup in which the removal of the data directory failed and
\* the later targets, one of them already absent, were still removed.
C26_Witness ==
    /\ pc = "done"
    /\ loaded.force /\ loaded.deep
    /\ loaded.locked = {<<"data">>} /\ loaded.data
    /\ ~loaded.pyd /\ loaded.config /\ loaded.modules /\ loaded.results
    /\ ~derived.returned
    /\ <<"data">> \in DOMAIN fs
    /\ <<".eve-frontier-path">> \notin DOMAIN fs
    /\ <<"node_modules">> \notin DOMAIN fs
    /\ <<"pipeline_results.json">> \notin DOMAIN fs

\* C29: when runSetup has returned, .eve-frontier-path holds the new
\* configuration only if a path was given, the three markers exist below it
\* and .python312-path was written for a valid Python 3.12; runSetup returned
\* true only if the configuration was written, and otherwise the file is as it
\* was; with those conditions met, the directories made and the file writable
\* it is written and true is returned whatever number of links failed; and
\* every error ends in a return, of false.
C29_ConfigurationOnlyAfterValidation ==
    pc = "done" =>
        LET config == <<".eve-frontier-path">>
            saved == config \in DOMAIN fs /\ fs[config] = FileNode("setupCompleted")
            markers == /\ loaded.exe /\ loaded.index /\ loaded.resFiles
                       /\ \A p \in {<<"game", "stillness", "bin64", "exefile.exe">>,
                                    <<"game", "index_stillness.txt">>,
                                    <<"game", "ResFiles">>} : p \in DOMAIN derived.before
            python == /\ loaded.python # "invalid"
                      /\ <<".python312-path">> \in DOMAIN fs
                      /\ fs[<<".python312-path">>] = FileNode("python")
        IN /\ saved => loaded.path # "" /\ markers /\ python
           /\ derived.returned => saved
           /\ ~saved => Lstat(fs, config) = Lstat(derived.before, config)
           /\ (/\ loaded.path # "" /\ markers
               /\ loaded.python # "invalid" /\ loaded.pythonFile = "absent" /\ <<>> \notin ro
               /\ loaded.raw # "file" /\ loaded.configFile # "dir")
                  => saved /\ derived.returned
           /\ derived.stage \in {"path", "validate", "python", "catch", "save", "ok"}
           /\ derived.returned <=> derived.stage = "ok"

\* A setup in which the bin64 link and the links in data/raw all failed and
\* the configuration was saved and true returned.
C29_Witness ==
    /\ pc = "done"
    /\ derived.returned
    /\ derived.errorCount = 4
    /\ <<".eve-frontier-path">> \in DOMAIN fs
    /\ fs[<<".eve-frontier-path">>] = FileNode("setupCompleted")

====
